---- MODULE Spec2Model ----
(***************************************************************************)
(* A model of the CS2Physics engine of papercd/SyncGaze: the movement      *)
(* integrator (updateMovement) and the recoil engine (applyRecoil,         *)
(* updateRecoilRecovery).                                                  *)
(*                                                                         *)
(* The repository holds two revisions of the class that differ in code:    *)
(*   "gun"  src/frontend/src/components/Gun.tsx, lines 68-348: stamina,    *)
(*          a fixed eye height of 1.6, friction without a stop speed       *)
(*          (src/unnamed/part_004 is the same code with other constants)   *)
(*   "cs2"  src/frontend/src/utils/cs2Physics.ts: smoothed crouch height,  *)
(*          friction with a stop speed, no stamina                         *)
(* The variable build says which revision an engine instance is.           *)
(*                                                                         *)
(* ARITHMETIC.  The code computes in IEEE doubles; the model computes in   *)
(* fixed point with round-to-nearest after every product or quotient:      *)
(*   speeds        integer multiples of 1/1000 unit per second             *)
(*   positions     integer multiples of 1/1000000 unit                     *)
(*   unit vectors  integer multiples of 1/DirScale                         *)
(*   stamina       integer multiples of 1/1000                             *)
(*   recoil        integer multiples of 1/1000                             *)
(*   time          integer milliseconds                                    *)
(* so that velocity * delta is exact as a position.                        *)
(***************************************************************************)
EXTENDS Integers, Sequences, FiniteSets, TLC

VARIABLES build, movementState, weaponState, now, keysPressed, keyEvents,
          frameTime, shotsFired, burst, held,
          ammo, rendered, reloadTimeoutRef, reloadTimers, autoReloads,
          ammoEvents

\* the state of Scene's ammunition: useAmmoSystem's ammo as the queued
\* updates leave it, the ammo of the last render (the value the callbacks
\* closed over), the timer handle, the pending timers, the budget of a run
ammoVars ==
  <<ammo, rendered, reloadTimeoutRef, reloadTimers, autoReloads, ammoEvents>>

vars == <<build, movementState, weaponState, now, keysPressed, keyEvents,
          frameTime, shotsFired, burst, held, ammoVars>>

----------------------------------------------------------------------------
(* Fixed-point helpers *)

Abs(a) == IF a < 0 THEN -a ELSE a

Min(a, b) == IF a < b THEN a ELSE b

Max(a, b) == IF a > b THEN a ELSE b

\* a / b rounded to the nearest integer, halves away from zero (b > 0)
RDiv(a, b) ==
  LET n == Abs(a)
      q == n \div b
      r == n % b
      m == IF 2 * r >= b THEN q + 1 ELSE q
  IN IF a < 0 THEN -m ELSE m

\* the largest r in lo..hi with r * r <= n, by bisection
SqrtIter[n \in Nat, lo \in Nat, hi \in Nat] ==
  IF lo >= hi THEN lo
  ELSE LET mid == (lo + hi + 1) \div 2
       IN IF mid * mid <= n THEN SqrtIter[n, mid, hi]
                            ELSE SqrtIter[n, lo, mid - 1]

\* Math.sqrt: the square root of n rounded to the nearest integer
Sqrt(n) ==
  LET r == SqrtIter[n, 0, Min(n, 46340)]
  IN IF n - r * r > r THEN r + 1 ELSE r

\* unit vectors are stored times DirScale
DirScale == 10^4

\* k per second, over a frame of delta milliseconds
PerFrame(k, delta) == RDiv(k * delta, 1000)

----------------------------------------------------------------------------
(* THREE.Vector3 / THREE.Vector2 *)

Vec3(x, y, z) == [x |-> x, y |-> y, z |-> z]

Vec2(x, y) == [x |-> x, y |-> y]

\* Vector3.length()
Length3(v) == Sqrt(v.x * v.x + v.y * v.y + v.z * v.z)

\* Vector3.lengthSq(), exact
LengthSq3(v) == v.x * v.x + v.y * v.y + v.z * v.z

\* Vector3.dot(w) for a direction w stored times DirScale
DotDir(v, w) == RDiv(v.x * w.x + v.y * w.y + v.z * w.z, DirScale)

\* Vector3.addScaledVector(w, s) for a direction w stored times DirScale
AddScaledDir(v, w, s) ==
  Vec3(v.x + RDiv(w.x * s, DirScale),
       v.y + RDiv(w.y * s, DirScale),
       v.z + RDiv(w.z * s, DirScale))

\* Vector3.multiplyScalar(k) for a ratio k stored times DirScale
ScaleByRatio(v, k) ==
  Vec3(RDiv(v.x * k, DirScale), RDiv(v.y * k, DirScale), RDiv(v.z * k, DirScale))


----------------------------------------------------------------------------
(* Configuration table of revision "gun": speeds times 1000, stamina times  *)
(* 1000, accelerations as speed per second times 1000, friction and        *)
(* acceleration factors per second, AIR_CONTROL in percent.                *)

CS2_CONSTANTS_V1 ==
  [ RUN_SPEED |-> 2500, CROUCH_SPEED |-> 800,
    ACCELERATION |-> 25, GROUND_FRICTION |-> 8, AIR_ACCELERATION |-> 8,
    JUMP_VELOCITY |-> 4500, GRAVITY |-> 18000,
    AIR_CONTROL_PCT |-> 25,
    STAMINA_RECOVERY |-> 20000, STAMINA_COST |-> 30000,
    STAMINA_MAX |-> 100000, STAMINA_LAND_COST |-> 15000,
    BASE_INACCURACY |-> 500, MOVE_INACCURACY |-> 15000,
    JUMP_INACCURACY |-> 40000, CROUCH_ACCURACY_BONUS_PCT |-> 50 ]

\* the literal 1.6 of the constructor and of the ground check, as a position
GroundY1 == 1600 * 1000

\* the literal 0.1 of applyFriction, as a speed
SlowSpeed == 1000 \div 10

\* the literal 30 of airAccelerate, as a speed
AirCap1 == 30 * 1000

----------------------------------------------------------------------------
(* Input and camera *)

\* CameraController's useFrame: the input gathered from keysPressed
GatherInput(keys) ==
  [ forward |-> (IF "w" \in keys THEN 1 ELSE 0) + (IF "s" \in keys THEN -1 ELSE 0),
    right   |-> (IF "d" \in keys THEN 1 ELSE 0) + (IF "a" \in keys THEN -1 ELSE 0),
    jump    |-> " " \in keys,
    crouch  |-> "shift" \in keys \/ "control" \in keys ]

\* flattened, normalised camera basis for a camera with yaw 0 (any pitch):
\* (0,0,-1) and (1,0,0) rotated by camera.quaternion, y zeroed, normalised
CameraForward == Vec3(0, 0, -DirScale)

CameraRight == Vec3(DirScale, 0, 0)

\* wishDir.set(0,0,0); addScaledVector(forward, input.forward);
\* addScaledVector(right, input.right)
RawWishDir(input) ==
  Vec3(CameraForward.x * input.forward + CameraRight.x * input.right,
       0,
       CameraForward.z * input.forward + CameraRight.z * input.right)

\* wishDir.length()
WishDirLength(input) == Sqrt(LengthSq3(RawWishDir(input)))

\* wishDir.divideScalar(wishDirLength)
DivideByLength(w, len) ==
  Vec3(RDiv(w.x * DirScale, len), RDiv(w.y * DirScale, len), RDiv(w.z * DirScale, len))

----------------------------------------------------------------------------
(* The acceleration model, the same in both revisions *)

\* a faulty accelerate: the added speed is not capped at addSpeed
accelerateUncapped(m, wishDir, wishSpeed, accel, delta) ==
  LET currentSpeed == DotDir(m.velocity, wishDir)
      addSpeed == wishSpeed - currentSpeed
      raw == PerFrame(accel * wishSpeed, delta)
  IN IF addSpeed <= 0 THEN m
     ELSE [m EXCEPT !.velocity = AddScaledDir(m.velocity, wishDir, raw)]

\* a faulty accelerate: no early return when addSpeed <= 0
accelerateNoReturn(m, wishDir, wishSpeed, accel, delta) ==
  LET currentSpeed == DotDir(m.velocity, wishDir)
      addSpeed == wishSpeed - currentSpeed
      raw == PerFrame(accel * wishSpeed, delta)
      accelSpeed == IF raw > addSpeed THEN addSpeed ELSE raw
  IN [m EXCEPT !.velocity = AddScaledDir(m.velocity, wishDir, accelSpeed)]

\* accelerate(wishDir, wishSpeed, accel, delta)
accelerate(m, wishDir, wishSpeed, accel, delta) ==
  LET currentSpeed == DotDir(m.velocity, wishDir)
      addSpeed == wishSpeed - currentSpeed
      raw == PerFrame(accel * wishSpeed, delta)
      accelSpeed == IF raw > addSpeed THEN addSpeed ELSE raw
  IN IF addSpeed <= 0 THEN m
     ELSE [m EXCEPT !.velocity = AddScaledDir(m.velocity, wishDir, accelSpeed)]

----------------------------------------------------------------------------
(* Revision "gun": the movement integrator with stamina *)

\* airAccelerate(wishDir, wishSpeed, delta)
airAccelerate(m, wishDir, wishSpeed, delta) ==
  LET wishSpd == Min(wishSpeed, AirCap1)
      currentSpeed == DotDir(m.velocity, wishDir)
      addSpeed == wishSpd - currentSpeed
      raw == PerFrame(CS2_CONSTANTS_V1.AIR_ACCELERATION * wishSpeed, delta)
      accelSpeed == IF raw > addSpeed THEN addSpeed ELSE raw
  IN IF addSpeed <= 0 THEN m
     ELSE [m EXCEPT !.velocity = AddScaledDir(m.velocity, wishDir, accelSpeed)]

\* applyFriction(delta)
applyFrictionV1(m, delta) ==
  LET speed == Length3(m.velocity)
      drop == PerFrame(speed * CS2_CONSTANTS_V1.GROUND_FRICTION, delta)
      newSpeed == Max(speed - drop, 0)
      ratio == IF newSpeed > 0 THEN RDiv(newSpeed * DirScale, speed) ELSE newSpeed
  IN IF ~m.isGrounded THEN m
     ELSE IF speed < SlowSpeed THEN m
     ELSE [m EXCEPT !.velocity = ScaleByRatio(m.velocity, ratio)]

\* gravity while airborne
GravityV1(m, delta) ==
  IF ~m.isGrounded
  THEN [m EXCEPT !.velocity.y = @ - PerFrame(CS2_CONSTANTS_V1.GRAVITY, delta)]
  ELSE m

\* a faulty wish direction: with no direction asked for, the camera's forward
\* direction is taken
WishDirV1DefaultsForward(input) ==
  LET wishDirLength == WishDirLength(input)
  IN IF wishDirLength > 0 THEN DivideByLength(RawWishDir(input), wishDirLength)
     ELSE CameraForward

\* the wish direction: normalised when its length is > 0
WishDirV1(input) ==
  LET wishDirLength == WishDirLength(input)
  IN IF wishDirLength > 0 THEN DivideByLength(RawWishDir(input), wishDirLength)
     ELSE RawWishDir(input)

\* isCrouching echoes the input; moveSpeed follows it
CrouchV1(m, input) ==
  [m EXCEPT !.isCrouching = input.crouch,
            !.moveSpeed = IF input.crouch THEN CS2_CONSTANTS_V1.CROUCH_SPEED
                                          ELSE CS2_CONSTANTS_V1.RUN_SPEED]

\* a faulty jump test: a jump is allowed at exactly STAMINA_COST
CanJumpV1AtCost(m, input) ==
  input.jump /\ m.isGrounded /\ m.stamina >= CS2_CONSTANTS_V1.STAMINA_COST

\* a faulty jump test: it does not ask whether the player is grounded
CanJumpV1Airborne(m, input) ==
  input.jump /\ m.stamina > CS2_CONSTANTS_V1.STAMINA_COST

\* the jump test
CanJumpV1(m, input) ==
  input.jump /\ m.isGrounded /\ m.stamina > CS2_CONSTANTS_V1.STAMINA_COST

\* a faulty jump: the stamina cost is not paid
JumpV1Free(m, input) ==
  IF input.jump /\ m.isGrounded /\ m.stamina > CS2_CONSTANTS_V1.STAMINA_COST
  THEN [m EXCEPT !.velocity.y = CS2_CONSTANTS_V1.JUMP_VELOCITY,
                 !.isGrounded = FALSE]
  ELSE m

\* the jump
JumpV1(m, input) ==
  IF CanJumpV1(m, input)
  THEN [m EXCEPT !.velocity.y = CS2_CONSTANTS_V1.JUMP_VELOCITY,
                 !.isGrounded = FALSE,
                 !.stamina = @ - CS2_CONSTANTS_V1.STAMINA_COST]
  ELSE m

\* ground or air acceleration
AccelStepV1(m, wishDir, delta) ==
  IF m.isGrounded
  THEN accelerate(m, wishDir, m.moveSpeed, CS2_CONSTANTS_V1.ACCELERATION, delta)
  ELSE LET airWishSpeed == RDiv(m.moveSpeed * CS2_CONSTANTS_V1.AIR_CONTROL_PCT, 100)
       IN airAccelerate(m, wishDir, airWishSpeed, delta)

\* position += velocity * delta (position.x and position.z are written and
\* never read by the engine: the model keeps position.y)
IntegrateY(m, delta) ==
  [m EXCEPT !.position.y = @ + m.velocity.y * delta]

\* a faulty landing cost: no clamp at 0
LandingStaminaUnclamped(m) ==
  IF ~m.isGrounded
  THEN m.stamina - CS2_CONSTANTS_V1.STAMINA_LAND_COST
  ELSE m.stamina

\* the landing cost, paid when the ground check finds an airborne player
LandingStamina(m) ==
  IF ~m.isGrounded
  THEN Max(0, m.stamina - CS2_CONSTANTS_V1.STAMINA_LAND_COST)
  ELSE m.stamina

\* a faulty ground check: the fall speed survives the landing
GroundCheckV1KeepsFall(m) ==
  IF m.position.y <= GroundY1
  THEN [m EXCEPT !.position.y = GroundY1,
                 !.stamina = IF ~m.isGrounded
                             THEN Max(0, @ - CS2_CONSTANTS_V1.STAMINA_LAND_COST)
                             ELSE @,
                 !.isGrounded = TRUE]
  ELSE [m EXCEPT !.isGrounded = FALSE]

\* the ground check against the fixed eye height
GroundCheckV1(m) ==
  IF m.position.y <= GroundY1
  THEN [m EXCEPT !.position.y = GroundY1,
                 !.velocity.y = 0,
                 !.stamina = LandingStamina(m),
                 !.isGrounded = TRUE]
  ELSE [m EXCEPT !.isGrounded = FALSE]

\* a faulty stamina recovery: it does not ask whether the player is grounded
RegenV1Anywhere(m, delta) ==
  [m EXCEPT !.stamina =
     Min(CS2_CONSTANTS_V1.STAMINA_MAX,
         @ + PerFrame(CS2_CONSTANTS_V1.STAMINA_RECOVERY, delta))]

\* stamina recovery while grounded
RegenV1(m, delta) ==
  IF m.isGrounded
  THEN [m EXCEPT !.stamina =
          Min(CS2_CONSTANTS_V1.STAMINA_MAX,
              @ + PerFrame(CS2_CONSTANTS_V1.STAMINA_RECOVERY, delta))]
  ELSE m

\* a faulty updateMovement: the acceleration step runs before the jump
updateMovementV1AccelFirst(m, input, delta) ==
  LET m1 == GravityV1(m, delta)
      wishDir == WishDirV1(input)
      m2 == CrouchV1(m1, input)
      m3 == applyFrictionV1(m2, delta)
      m4 == AccelStepV1(m3, wishDir, delta)
      m5 == JumpV1(m4, input)
      m6 == IntegrateY(m5, delta)
      m7 == GroundCheckV1(m6)
  IN RegenV1(m7, delta)

\* updateMovement(input, camera, delta)
updateMovementV1(m, input, delta) ==
  LET m1 == GravityV1(m, delta)
      wishDir == WishDirV1(input)
      m2 == CrouchV1(m1, input)
      m3 == applyFrictionV1(m2, delta)
      m4 == JumpV1(m3, input)
      m5 == AccelStepV1(m4, wishDir, delta)
      m6 == IntegrateY(m5, delta)
      m7 == GroundCheckV1(m6)
  IN RegenV1(m7, delta)

\* the constructor
NewMovementStateV1 ==
  [ velocity |-> Vec3(0, 0, 0),
    position |-> [y |-> GroundY1],
    isGrounded |-> TRUE,
    isCrouching |-> FALSE,
    stamina |-> CS2_CONSTANTS_V1.STAMINA_MAX,
    moveSpeed |-> CS2_CONSTANTS_V1.RUN_SPEED ]

\* the literal 10 of calculateInaccuracy, as a speed
InaccuracySpeed == 10 * 1000

\* a faulty calculateInaccuracy: the crouch bonus scales the penalties only
calculateInaccuracyBonusOnPenalties(m) ==
  LET speed == Sqrt(m.velocity.x * m.velocity.x + m.velocity.z * m.velocity.z)
      moving == IF speed > InaccuracySpeed
                THEN RDiv(speed * CS2_CONSTANTS_V1.MOVE_INACCURACY, m.moveSpeed)
                ELSE 0
      jumping == IF ~m.isGrounded THEN CS2_CONSTANTS_V1.JUMP_INACCURACY ELSE 0
  IN IF m.isCrouching
     THEN CS2_CONSTANTS_V1.BASE_INACCURACY
          + RDiv((moving + jumping) * CS2_CONSTANTS_V1.CROUCH_ACCURACY_BONUS_PCT, 100)
     ELSE CS2_CONSTANTS_V1.BASE_INACCURACY + moving + jumping

\* calculateInaccuracy(), times 1000
calculateInaccuracy(m) ==
  LET speed == Sqrt(m.velocity.x * m.velocity.x + m.velocity.z * m.velocity.z)
      moving == IF speed > InaccuracySpeed
                THEN RDiv(speed * CS2_CONSTANTS_V1.MOVE_INACCURACY, m.moveSpeed)
                ELSE 0
      jumping == IF ~m.isGrounded THEN CS2_CONSTANTS_V1.JUMP_INACCURACY ELSE 0
      inaccuracy == CS2_CONSTANTS_V1.BASE_INACCURACY + moving + jumping
  IN IF m.isCrouching
     THEN RDiv(inaccuracy * CS2_CONSTANTS_V1.CROUCH_ACCURACY_BONUS_PCT, 100)
     ELSE inaccuracy

\* the weaponState field
NewWeaponState ==
  [ recoilIndex |-> 0, totalRecoil |-> Vec2(0, 0), lastShotTime |-> 0 ]

----------------------------------------------------------------------------
(* Revision "cs2": the movement integrator with a smoothed crouch height.  *)
(* Speeds times 1000, heights times 1000000.                               *)

CS2_CONSTANTS ==
  [ WALK_SPEED |-> 2600, CROUCH_MOVE_SPEED |-> 1000,
    ACCELERATION |-> 50, GROUND_FRICTION |-> 12, AIR_ACCELERATION |-> 10,
    STOP_SPEED |-> 1000,
    JUMP_VELOCITY |-> 5200, GRAVITY |-> 20000,
    HEAD_HEIGHT |-> 1700000, CROUCH_HEIGHT |-> 1200000,
    CROUCH_TRANSITION_SPEED |-> 8 ]

\* the literal 0.1 of the isCrouching test, as a height
CrouchTolerance == 100 * 1000

\* the literal 0.001 of the wishDirLength test, as a length times DirScale
WishDirEpsilon == DirScale \div 1000

\* a faulty lerp: the step is twice rate * delta
LerpTwice(x, y, rate, delta) == x + RDiv(2 * rate * delta * (y - x), 1000)

\* THREE.MathUtils.lerp(x, y, t) = (1 - t) * x + t * y with t = rate * delta,
\* written x + t * (y - x) to stay within the integers TLC computes with
Lerp(x, y, rate, delta) == x + RDiv(rate * delta * (y - x), 1000)

\* a faulty crouch step: isCrouching is set only once the smoothed height
\* has arrived at the crouch height
CrouchStepOnArrival(m, input, delta) ==
  LET target == IF input.crouch THEN CS2_CONSTANTS.CROUCH_HEIGHT
                                ELSE CS2_CONSTANTS.HEAD_HEIGHT
      height == Lerp(m.currentHeight, target,
                     CS2_CONSTANTS.CROUCH_TRANSITION_SPEED, delta)
  IN [m EXCEPT !.targetHeight = target,
               !.currentHeight = height,
               !.isCrouching = (height = CS2_CONSTANTS.CROUCH_HEIGHT)]

\* a faulty crouch step: isCrouching echoes input.crouch
CrouchStepEcho(m, input, delta) ==
  LET target == IF input.crouch THEN CS2_CONSTANTS.CROUCH_HEIGHT
                                ELSE CS2_CONSTANTS.HEAD_HEIGHT
      height == Lerp(m.currentHeight, target,
                     CS2_CONSTANTS.CROUCH_TRANSITION_SPEED, delta)
  IN [m EXCEPT !.targetHeight = target,
               !.currentHeight = height,
               !.isCrouching = input.crouch]

\* the smoothed crouch transition and the derived isCrouching flag
CrouchStep(m, input, delta) ==
  LET target == IF input.crouch THEN CS2_CONSTANTS.CROUCH_HEIGHT
                                ELSE CS2_CONSTANTS.HEAD_HEIGHT
      height == Lerp(m.currentHeight, target,
                     CS2_CONSTANTS.CROUCH_TRANSITION_SPEED, delta)
  IN [m EXCEPT !.targetHeight = target,
               !.currentHeight = height,
               !.isCrouching =
                  Abs(height - CS2_CONSTANTS.CROUCH_HEIGHT) < CrouchTolerance]

\* a faulty gravity: it acts on a rising player only
GravityWhileRising(m, delta) ==
  IF ~m.isGrounded /\ m.velocity.y > 0
  THEN [m EXCEPT !.velocity.y = @ - PerFrame(CS2_CONSTANTS.GRAVITY, delta)]
  ELSE m

\* gravity while airborne
Gravity(m, delta) ==
  IF ~m.isGrounded
  THEN [m EXCEPT !.velocity.y = @ - PerFrame(CS2_CONSTANTS.GRAVITY, delta)]
  ELSE m

\* a faulty friction: the drop is added to the speed
applyFrictionSpeedsUp(m, delta) ==
  LET speed == Length3(m.velocity)
      control == IF speed < CS2_CONSTANTS.STOP_SPEED
                 THEN CS2_CONSTANTS.STOP_SPEED ELSE speed
      drop == PerFrame(control * CS2_CONSTANTS.GROUND_FRICTION, delta)
      newSpeed == speed + drop
  IN IF ~m.isGrounded THEN m
     ELSE IF speed < SlowSpeed THEN [m EXCEPT !.velocity = Vec3(0, 0, 0)]
     ELSE [m EXCEPT !.velocity =
             ScaleByRatio(m.velocity, RDiv(newSpeed * DirScale, speed))]

\* a faulty friction: a slow player is left alone instead of stopped, and the
\* drop is proportional to the speed all the way down
applyFrictionNoStop(m, delta) ==
  LET speed == Length3(m.velocity)
      drop == PerFrame(speed * CS2_CONSTANTS.GROUND_FRICTION, delta)
      newSpeed == Max(speed - drop, 0)
      ratio == IF newSpeed > 0 THEN RDiv(newSpeed * DirScale, speed) ELSE newSpeed
  IN IF ~m.isGrounded THEN m
     ELSE IF speed < SlowSpeed THEN m
     ELSE [m EXCEPT !.velocity = ScaleByRatio(m.velocity, ratio)]

\* a faulty friction: a drop larger than the speed is not stopped at zero
applyFrictionReverses(m, delta) ==
  LET speed == Length3(m.velocity)
      control == IF speed < CS2_CONSTANTS.STOP_SPEED
                 THEN CS2_CONSTANTS.STOP_SPEED ELSE speed
      drop == PerFrame(control * CS2_CONSTANTS.GROUND_FRICTION, delta)
      newSpeed == speed - drop
  IN IF ~m.isGrounded THEN m
     ELSE IF speed < SlowSpeed THEN [m EXCEPT !.velocity = Vec3(0, 0, 0)]
     ELSE [m EXCEPT !.velocity =
             ScaleByRatio(m.velocity, RDiv(newSpeed * DirScale, speed))]

\* applyFriction(delta)
applyFriction(m, delta) ==
  LET speed == Length3(m.velocity)
      control == IF speed < CS2_CONSTANTS.STOP_SPEED
                 THEN CS2_CONSTANTS.STOP_SPEED ELSE speed
      drop == PerFrame(control * CS2_CONSTANTS.GROUND_FRICTION, delta)
      newSpeed == speed - drop
  IN IF ~m.isGrounded THEN m
     ELSE IF speed < SlowSpeed THEN [m EXCEPT !.velocity = Vec3(0, 0, 0)]
     ELSE IF newSpeed < 0 THEN [m EXCEPT !.velocity = Vec3(0, 0, 0)]
     ELSE [m EXCEPT !.velocity =
             ScaleByRatio(m.velocity, RDiv(newSpeed * DirScale, speed))]

\* the wish speed of the tick, chosen from the derived isCrouching flag
WishSpeed(m) ==
  IF m.isCrouching THEN CS2_CONSTANTS.CROUCH_MOVE_SPEED
                   ELSE CS2_CONSTANTS.WALK_SPEED

\* a faulty wish speed: the length of the wish direction is not capped at 1
NormalizedSpeedUncapped(wishDirLength, wishSpeed) ==
  RDiv(wishDirLength * wishSpeed, DirScale)

\* Math.min(wishDirLength, 1) * wishSpeed
NormalizedSpeed(wishDirLength, wishSpeed) ==
  RDiv(Min(wishDirLength, DirScale) * wishSpeed, DirScale)

\* friction, then acceleration toward the normalised wish direction
MoveStep(m, input, delta) ==
  LET wishDirLength == WishDirLength(input)
      wishDir == DivideByLength(RawWishDir(input), wishDirLength)
      normalizedSpeed == NormalizedSpeed(wishDirLength, WishSpeed(m))
      f == applyFriction(m, delta)
  IN IF wishDirLength > WishDirEpsilon
     THEN IF f.isGrounded
          THEN accelerate(f, wishDir, normalizedSpeed,
                          CS2_CONSTANTS.ACCELERATION, delta)
          ELSE accelerate(f, wishDir, normalizedSpeed,
                          CS2_CONSTANTS.AIR_ACCELERATION, delta)
     ELSE f

\* a faulty jump: it does not ask for the jump key
JumpAlways(m, input) ==
  IF m.isGrounded
  THEN [m EXCEPT !.velocity.y = CS2_CONSTANTS.JUMP_VELOCITY,
                 !.isGrounded = FALSE]
  ELSE m

\* the jump: no stamina restriction
Jump(m, input) ==
  IF input.jump /\ m.isGrounded
  THEN [m EXCEPT !.velocity.y = CS2_CONSTANTS.JUMP_VELOCITY,
                 !.isGrounded = FALSE]
  ELSE m

\* a faulty ground check: the fall speed survives the landing
GroundCheckKeepsFall(m) ==
  IF m.position.y <= m.currentHeight
  THEN [m EXCEPT !.position.y = m.currentHeight,
                 !.isGrounded = TRUE]
  ELSE [m EXCEPT !.isGrounded = FALSE]

\* a faulty ground check: the player is grounded where it stands, position.y
\* is not raised to the smoothed height
GroundCheckNoSnap(m) ==
  IF m.position.y <= m.currentHeight
  THEN [m EXCEPT !.velocity.y = IF @ < 0 THEN 0 ELSE @,
                 !.isGrounded = TRUE]
  ELSE [m EXCEPT !.isGrounded = FALSE]

\* the ground check against the smoothed height
GroundCheck(m) ==
  IF m.position.y <= m.currentHeight
  THEN [m EXCEPT !.position.y = m.currentHeight,
                 !.velocity.y = IF @ < 0 THEN 0 ELSE @,
                 !.isGrounded = TRUE]
  ELSE [m EXCEPT !.isGrounded = FALSE]

\* updateMovement(input, camera, delta)
updateMovement(m, input, delta) ==
  LET m1 == CrouchStep(m, input, delta)
      m2 == Gravity(m1, delta)
      m3 == MoveStep(m2, input, delta)
      m4 == Jump(m3, input)
      m5 == IntegrateY(m4, delta)
  IN GroundCheck(m5)

\* the constructor
NewMovementState ==
  [ velocity |-> Vec3(0, 0, 0),
    position |-> [y |-> CS2_CONSTANTS.HEAD_HEIGHT],
    isGrounded |-> TRUE,
    isCrouching |-> FALSE,
    currentHeight |-> CS2_CONSTANTS.HEAD_HEIGHT,
    targetHeight |-> CS2_CONSTANTS.HEAD_HEIGHT ]

----------------------------------------------------------------------------
(* The recoil engine.  Pattern entries are stored times 10, recoil times   *)
(* 1000, the multiplier in percent.                                        *)

\* glockRecoilPattern of cs2Physics.ts
glockRecoilPattern ==
  << Vec2(0, -25), Vec2(-5, -28), Vec2(5, -30), Vec2(-8, -32), Vec2(10, -35) >>

\* glockRecoilPattern of Gun.tsx
glockRecoilPatternV1 ==
  << Vec2(0, -25), Vec2(-5, -28), Vec2(5, -30), Vec2(-8, -32), Vec2(10, -35),
     Vec2(-12, -38), Vec2(15, -40), Vec2(-18, -42), Vec2(20, -45),
     Vec2(-22, -48) >>

Pattern(b) == IF b = "gun" THEN glockRecoilPatternV1 ELSE glockRecoilPattern

\* the pattern scale 0.3 (RECOIL_PATTERN_SCALE), times 10
RecoilScaleTenths == 3

\* the recovery rate 3 (RECOIL_RECOVERY), units per second
RecoilRecovery == 3

\* the decay threshold 0.4 s, in milliseconds
DecayThresholdMs == 400

\* a faulty pattern lookup: past the end the last entry repeats
PatternEntryClamped(b, recoilIndex) ==
  Pattern(b)[Min(recoilIndex, Len(Pattern(b)) - 1) + 1]

\* glockRecoilPattern[recoilIndex % length]; TLA+ sequences start at 1
PatternEntry(b, recoilIndex) == Pattern(b)[(recoilIndex % Len(Pattern(b))) + 1]

\* recoil = entry.clone().multiplyScalar(0.3 * multiplier); Gun.tsx's
\* applyRecoil takes no multiplier
ShotRecoil(b, recoilIndex, multiplierPct) ==
  LET e == PatternEntry(b, recoilIndex)
      pct == IF b = "gun" THEN 100 ELSE multiplierPct
  IN Vec2(RDiv(e.x * RecoilScaleTenths * pct, 10),
          RDiv(e.y * RecoilScaleTenths * pct, 10))

\* a faulty applyRecoil: the multiplier scales the accumulated recoil, not
\* only the entry of this shot
applyRecoilScalesTotal(b, w, multiplierPct, t) ==
  LET e == PatternEntry(b, w.recoilIndex)
      pct == IF b = "gun" THEN 100 ELSE multiplierPct
  IN [ recoilIndex |-> w.recoilIndex + 1,
       totalRecoil |->
         Vec2(RDiv((w.totalRecoil.x * 10 + e.x * RecoilScaleTenths * 100) * pct, 1000),
              RDiv((w.totalRecoil.y * 10 + e.y * RecoilScaleTenths * 100) * pct, 1000)),
       lastShotTime |-> t ]

\* applyRecoil(multiplier) at time t = performance.now()
applyRecoil(b, w, multiplierPct, t) ==
  LET recoil == ShotRecoil(b, w.recoilIndex, multiplierPct)
  IN [ recoilIndex |-> w.recoilIndex + 1,
       totalRecoil |-> Vec2(w.totalRecoil.x + recoil.x, w.totalRecoil.y + recoil.y),
       lastShotTime |-> t ]

\* Vector2.length()
Length2(v) == Sqrt(v.x * v.x + v.y * v.y)

\* a faulty recoilIndex step: the decay already starts at the threshold
DecayIndexAtThreshold(w, t) ==
  IF t - w.lastShotTime >= DecayThresholdMs
  THEN Max(0, w.recoilIndex - 1)
  ELSE w.recoilIndex

\* the recoilIndex step of updateRecoilRecovery
DecayIndex(w, t) ==
  IF t - w.lastShotTime > DecayThresholdMs
  THEN Max(0, w.recoilIndex - 1)
  ELSE w.recoilIndex

\* a faulty recovery: the step is not capped at the length that is left
RecoverUncapped(total, delta) ==
  LET recovery == RecoilRecovery * delta
      recoilLength == Length2(total)
      normalized == Vec2(RDiv(total.x * DirScale, recoilLength),
                         RDiv(total.y * DirScale, recoilLength))
  IN IF recoilLength > 0
     THEN Vec2(total.x - RDiv(normalized.x * recovery, DirScale),
               total.y - RDiv(normalized.y * recovery, DirScale))
     ELSE total

\* the totalRecoil step of updateRecoilRecovery
Recover(total, delta) ==
  LET recovery == RecoilRecovery * delta
      recoilLength == Length2(total)
      normalized == Vec2(RDiv(total.x * DirScale, recoilLength),
                         RDiv(total.y * DirScale, recoilLength))
      recoveryAmount == Min(recovery, recoilLength)
  IN IF recoilLength > 0
     THEN Vec2(total.x - RDiv(normalized.x * recoveryAmount, DirScale),
               total.y - RDiv(normalized.y * recoveryAmount, DirScale))
     ELSE total

\* updateRecoilRecovery(delta) at time t = performance.now()
updateRecoilRecovery(w, delta, t) ==
  [ recoilIndex |-> DecayIndex(w, t),
    totalRecoil |-> Recover(w.totalRecoil, delta),
    lastShotTime |-> w.lastShotTime ]

----------------------------------------------------------------------------
(* The ammunition hook useAmmoSystem and its timers.  React keeps the      *)
(* state and applies the queued functional updates in the order of the     *)
(* calls; a callback reads the ammo of the render that created it.         *)

\* Scene mounts the hook with a magazine of 20
MaxAmmo == 20

\* the reload durations and the delay of the automatic reload (ms):
\* ReloadEmpty, Reload, and SlideBack ((85.6 - 84.8) / 24 s) + 50
ReloadEmptyMs == 3033

ReloadMs == 2000

AutoReloadDelayMs == 83

\* useState's initial value
NewAmmoState(maxAmmo) ==
  [ current |-> maxAmmo, max |-> maxAmmo,
    isReloading |-> FALSE, isEmpty |-> FALSE ]

\* the update shoot queues
Shot(prev) ==
  LET newAmmo == prev.current - 1
  IN [prev EXCEPT !.current = newAmmo, !.isEmpty = (newAmmo = 0)]

\* the update the reload timer queues when it expires
Refill(prev) ==
  [prev EXCEPT !.current = prev.max, !.isReloading = FALSE, !.isEmpty = FALSE]

\* shoot(): closure is the ammo its useCallback closed over, state the ammo
\* the queued updates have produced
shoot(closure, state) ==
  IF closure.isReloading \/ closure.current <= 0
  THEN [returned |-> FALSE, ammo |-> state]
  ELSE [returned |-> TRUE, ammo |-> Shot(state)]

\* window.setTimeout returns an id no live or remembered timer has
FreshId(ref, timers) ==
  CHOOSE id \in 1..(Cardinality(timers) + 2) :
    id # ref /\ \A t \in timers : t.id # id

\* window.clearTimeout(reloadTimeoutRef.current) when the ref is set
ClearTimeout(ref, timers) ==
  IF ref # 0 THEN {t \in timers : t.id # ref} ELSE timers

\* a faulty reload: the timer of the reload before is left running
reloadKeepsTimer(closure, isEmptyReload, state, ref, timers, t) ==
  IF closure.isReloading \/ closure.current = closure.max
  THEN [returned |-> FALSE, ammo |-> state, reloadTimeoutRef |-> ref,
        reloadTimers |-> timers]
  ELSE LET id == FreshId(ref, timers)
           reloadDuration == IF isEmptyReload THEN ReloadEmptyMs ELSE ReloadMs
       IN [returned |-> TRUE,
           ammo |-> [state EXCEPT !.isReloading = TRUE],
           reloadTimeoutRef |-> id,
           reloadTimers |-> timers \cup {[id |-> id, due |-> t + reloadDuration]}]

\* reload(isEmptyReload) at time t: ref and timers are reloadTimeoutRef.current
\* (0 for null) and the reload timers that are pending
reload(closure, isEmptyReload, state, ref, timers, t) ==
  IF closure.isReloading \/ closure.current = closure.max
  THEN [returned |-> FALSE, ammo |-> state, reloadTimeoutRef |-> ref,
        reloadTimers |-> timers]
  ELSE LET id == FreshId(ref, timers)
           reloadDuration == IF isEmptyReload THEN ReloadEmptyMs ELSE ReloadMs
       IN [returned |-> TRUE,
           ammo |-> [state EXCEPT !.isReloading = TRUE],
           reloadTimeoutRef |-> id,
           reloadTimers |-> ClearTimeout(ref, timers)
                              \cup {[id |-> id, due |-> t + reloadDuration]}]

\* cancelReload()
cancelReload(state, ref, timers) ==
  [ ammo |-> [state EXCEPT !.isReloading = FALSE],
    reloadTimeoutRef |-> 0,
    reloadTimers |-> ClearTimeout(ref, timers) ]

\* Scene is mounted: the hook's first render, no timer
MountAmmo ==
  /\ ammo = NewAmmoState(MaxAmmo)
  /\ rendered = NewAmmoState(MaxAmmo)
  /\ reloadTimeoutRef = 0
  /\ reloadTimers = {}
  /\ autoReloads = <<>>
  /\ ammoEvents = 0

----------------------------------------------------------------------------
(* The host: CameraController's key handlers and frame callback *)

\* the keys the model presses
Keys == {"w", "d", " ", "shift"}

\* at most this many key events in a run
MaxKeyEvents == 2

\* the frame times (milliseconds) a run may have
FrameTimes == {16, 100}

\* every input a frame can gather from these keys
AllInputs == {GatherInput(ks) : ks \in SUBSET Keys}

\* frame times from 1 ms to 250 ms
AllDeltas == {1, 16, 33, 100, 250}

\* handleKeyDown
KeyDown ==
  \E k \in Keys \ keysPressed :
    /\ keyEvents < MaxKeyEvents
    /\ keysPressed' = keysPressed \cup {k}
    /\ keyEvents' = keyEvents + 1
    /\ UNCHANGED <<build, movementState, weaponState, now, frameTime, shotsFired,
                   burst, held, ammoVars>>

\* handleKeyUp
KeyUp ==
  \E k \in keysPressed :
    /\ keyEvents < MaxKeyEvents
    /\ keysPressed' = keysPressed \ {k}
    /\ keyEvents' = keyEvents + 1
    /\ UNCHANGED <<build, movementState, weaponState, now, frameTime, shotsFired,
                   burst, held, ammoVars>>

\* what a caller holds for the MovementState: nothing yet, the engine's own
\* object, or a copy of its fields
NoHandle == [kind |-> "none"]

\* getMovementState(): return this.movementState, the engine's own object
getMovementState == [kind |-> "alias"]

\* the fields a caller reads through handle h while the engine's
\* MovementState is m: updateMovement writes the fields of the one object
\* in place, so an alias reads the current fields
ReadThrough(h, m) == IF h.kind = "alias" THEN m ELSE h.value

\* a fresh engine of either revision
NewEngineState(b) == IF b = "gun" THEN NewMovementStateV1 ELSE NewMovementState

\* one call of the revision's updateMovement
Step(b, m, input, delta) ==
  IF b = "gun" THEN updateMovementV1(m, input, delta)
               ELSE updateMovement(m, input, delta)

\* k frames in a row with the same keys held and the same frame time; a
\* frame that changes nothing is followed by frames that change nothing
RECURSIVE Run(_, _, _, _, _)
Run(b, m, input, delta, k) ==
  IF k = 0 THEN m
  ELSE LET after == Step(b, m, input, delta)
       IN IF after = m THEN m ELSE Run(b, after, input, delta, k - 1)

Init ==
  /\ build \in {"gun", "cs2"}
  /\ movementState = NewEngineState(build)
  /\ weaponState = NewWeaponState
  /\ now = 0
  /\ keysPressed = {}
  /\ keyEvents = 0
  /\ frameTime \in FrameTimes
  /\ shotsFired = 0
  /\ burst = 0
  /\ held = NoHandle
  /\ MountAmmo

\* useFrame on revision "gun": gather the input, call updateMovement, fetch
\* the MovementState for the view bob and for onPhysicsUpdate
FrameV1 ==
  /\ build = "gun"
  /\ movementState' =
       updateMovementV1(movementState, GatherInput(keysPressed), frameTime)
  /\ held' = getMovementState
  /\ UNCHANGED <<build, weaponState, now, keysPressed, keyEvents, frameTime,
                 shotsFired, burst, ammoVars>>

\* useFrame on revision "cs2": gather the input, call updateMovement, fetch
\* the MovementState for the view bob and for onPhysicsUpdate
FrameCs2 ==
  /\ build = "cs2"
  /\ movementState' =
       updateMovement(movementState, GatherInput(keysPressed), frameTime)
  /\ held' = getMovementState
  /\ UNCHANGED <<build, weaponState, now, keysPressed, keyEvents, frameTime,
                 shotsFired, burst, ammoVars>>

Next == KeyDown \/ KeyUp \/ FrameV1 \/ FrameCs2

Spec == Init /\ [][Next]_vars

----------------------------------------------------------------------------
(* The weapon host: GlockModel's triggerFire and frame callback *)

\* at most this many shots in a run
MaxShots == 6

\* the clock stops here (milliseconds)
MaxNow == 1000

\* the frame times (milliseconds) of the weapon runs
WeaponFrameTimes == {100, 250}

\* the multipliers handleTriggerPull passes: 1, and 1.24 for the last shot
Multipliers == {100, 124}

InitRecoil ==
  /\ build \in {"gun", "cs2"}
  /\ movementState = NewEngineState(build)
  /\ weaponState = NewWeaponState
  /\ now = 0
  /\ keysPressed = {}
  /\ keyEvents = 0
  /\ frameTime \in WeaponFrameTimes
  /\ shotsFired = 0
  /\ burst = 0
  /\ held = NoHandle
  /\ MountAmmo

\* a faulty triggerFire: the shot also kicks the player's velocity
FireKicksPlayer ==
  \E multiplierPct \in Multipliers :
    /\ shotsFired < MaxShots
    /\ multiplierPct = 100 \/ shotsFired = MaxShots - 1
    /\ weaponState' = applyRecoil(build, weaponState, multiplierPct, now)
    /\ movementState' = [movementState EXCEPT !.velocity.y = @ + 100]
    /\ shotsFired' = shotsFired + 1
    /\ burst' = IF burst >= 0 /\ multiplierPct = 100 THEN burst + 1 ELSE -1
    /\ UNCHANGED <<build, now, keysPressed, keyEvents, frameTime, held, ammoVars>>

\* triggerFire: applyRecoil(recoilMultiplier); the 1.24 goes to the last shot
\* of the run
Fire ==
  \E multiplierPct \in Multipliers :
    /\ shotsFired < MaxShots
    /\ multiplierPct = 100 \/ shotsFired = MaxShots - 1
    /\ weaponState' = applyRecoil(build, weaponState, multiplierPct, now)
    /\ shotsFired' = shotsFired + 1
    /\ burst' = IF burst >= 0 /\ multiplierPct = 100 THEN burst + 1 ELSE -1
    /\ UNCHANGED <<build, movementState, now, keysPressed, keyEvents, frameTime,
                   held, ammoVars>>

\* GlockModel's useFrame, a frame later: updateRecoilRecovery(delta)
FrameRecoil ==
  /\ now + frameTime <= MaxNow
  /\ now' = now + frameTime
  /\ weaponState' = updateRecoilRecovery(weaponState, frameTime, now')
  /\ burst' = IF weaponState' = [NewWeaponState EXCEPT
                                   !.lastShotTime = weaponState.lastShotTime]
               THEN 0 ELSE -1
  /\ UNCHANGED <<build, movementState, keysPressed, keyEvents, frameTime,
                 shotsFired, held, ammoVars>>

NextRecoil == Fire \/ FrameRecoil

SpecRecoil == InitRecoil /\ [][NextRecoil]_vars

----------------------------------------------------------------------------
(* The whole scene: one engine serves CameraController (key handlers,      *)
(* updateMovement every frame) and GlockModel (triggerFire,                *)
(* updateRecoilRecovery every frame), in any order.                        *)

\* at most this many key events and shots together in a run of the scene
MaxEngineEvents == 2

\* the frame times both hosts are run with
EngineFrameTimes == FrameTimes \cap WeaponFrameTimes

InitEngine ==
  /\ build \in {"gun", "cs2"}
  /\ movementState = NewEngineState(build)
  /\ weaponState = NewWeaponState
  /\ now = 0
  /\ keysPressed = {}
  /\ keyEvents = 0
  /\ frameTime \in EngineFrameTimes
  /\ shotsFired = 0
  /\ burst = 0
  /\ held = NoHandle
  /\ MountAmmo

\* handleKeyDown, within the budget of the scene
EngineKeyDown == keyEvents + shotsFired < MaxEngineEvents /\ KeyDown

\* handleKeyUp, within the budget of the scene
EngineKeyUp == keyEvents + shotsFired < MaxEngineEvents /\ KeyUp

\* triggerFire, within the budget of the scene
EngineFire == keyEvents + shotsFired < MaxEngineEvents /\ Fire

NextEngine ==
  EngineKeyDown \/ EngineKeyUp \/ EngineFire \/ FrameV1 \/ FrameCs2 \/ FrameRecoil

SpecEngine == InitEngine /\ [][NextEngine]_vars

----------------------------------------------------------------------------
(* Scene's ammunition: the mousedown listener (handleTriggerPull), the r   *)
(* key (handleReload), the two kinds of timer, React's re-render and the   *)
(* frames during which time passes.                                        *)

\* at most this many shots in a run of the ammunition scene
MaxTriggerPulls == 22

\* at most this many r presses and cancelReload calls in a run
MaxAmmoEvents == 2

InitAmmo ==
  /\ build = "cs2"
  /\ movementState = NewEngineState(build)
  /\ weaponState = NewWeaponState
  /\ now = 0
  /\ keysPressed = {}
  /\ keyEvents = 0
  /\ frameTime \in WeaponFrameTimes
  /\ shotsFired = 0
  /\ burst = 0
  /\ held = NoHandle
  /\ MountAmmo

\* the times at which the pending timers are due
PendingDue ==
  {t.due : t \in reloadTimers} \cup
  {autoReloads[i].due : i \in 1..Len(autoReloads)}

\* the timer the browser runs next: it is due and none is due before it
RunsNext(due) == due <= now /\ \A other \in PendingDue : due <= other

\* a left mousedown: handleTriggerPull as the listener registered after the
\* last render has it; a refused shot changes nothing
TriggerPull ==
  LET didShoot == shoot(rendered, ammo)
      isLastShot == rendered.current - 1 = 0
      recoilMultiplier == IF isLastShot THEN 124 ELSE 100
  IN /\ shotsFired < MaxTriggerPulls
     /\ IF didShoot.returned
        THEN /\ ammo' = didShoot.ammo
             /\ weaponState' =
                  applyRecoil(build, weaponState, recoilMultiplier, now)
             /\ shotsFired' = shotsFired + 1
             /\ burst' = IF burst >= 0 /\ recoilMultiplier = 100
                         THEN burst + 1 ELSE -1
             /\ autoReloads' =
                  IF isLastShot
                  THEN Append(autoReloads,
                              [due |-> now + AutoReloadDelayMs,
                               reload |-> rendered])
                  ELSE autoReloads
        ELSE UNCHANGED <<ammo, weaponState, shotsFired, burst, autoReloads>>
     /\ UNCHANGED <<build, movementState, now, keysPressed, keyEvents,
                    frameTime, held, rendered, reloadTimeoutRef, reloadTimers,
                    ammoEvents>>

\* the r key: handleReload as registered after the last render, past its
\* early return, calls reload(false)
ManualReload ==
  LET didReload == reload(rendered, FALSE, ammo, reloadTimeoutRef,
                          reloadTimers, now)
  IN /\ ammoEvents < MaxAmmoEvents
     /\ ~(rendered.isReloading \/ rendered.current = rendered.max)
     /\ ammo' = didReload.ammo
     /\ reloadTimeoutRef' = didReload.reloadTimeoutRef
     /\ reloadTimers' = didReload.reloadTimers
     /\ ammoEvents' = ammoEvents + 1
     /\ UNCHANGED <<build, movementState, weaponState, now, keysPressed,
                    keyEvents, frameTime, shotsFired, burst, held, rendered,
                    autoReloads>>

\* the timeout handleTriggerPull set after the last shot: reload(true) as the
\* render of that shot has it
AutoReloadFires ==
  /\ autoReloads # <<>>
  /\ RunsNext(Head(autoReloads).due)
  /\ LET didReload == reload(Head(autoReloads).reload, TRUE, ammo,
                             reloadTimeoutRef, reloadTimers,
                             Head(autoReloads).due)
     IN /\ ammo' = didReload.ammo
        /\ reloadTimeoutRef' = didReload.reloadTimeoutRef
        /\ reloadTimers' = didReload.reloadTimers
  /\ autoReloads' = Tail(autoReloads)
  /\ UNCHANGED <<build, movementState, weaponState, now, keysPressed,
                 keyEvents, frameTime, shotsFired, burst, held, rendered,
                 ammoEvents>>

\* the timeout reload set: the magazine is filled
ReloadTimerExpires ==
  \E t \in reloadTimers :
    /\ RunsNext(t.due)
    /\ ammo' = Refill(ammo)
    /\ reloadTimers' = reloadTimers \ {t}
    /\ UNCHANGED <<build, movementState, weaponState, now, keysPressed,
                   keyEvents, frameTime, shotsFired, burst, held, rendered,
                   reloadTimeoutRef, autoReloads, ammoEvents>>

\* a caller of the hook cancels the reload
CancelReload ==
  LET cancelled == cancelReload(ammo, reloadTimeoutRef, reloadTimers)
  IN /\ ammoEvents < MaxAmmoEvents
     /\ ammo' = cancelled.ammo
     /\ reloadTimeoutRef' = cancelled.reloadTimeoutRef
     /\ reloadTimers' = cancelled.reloadTimers
     /\ ammoEvents' = ammoEvents + 1
     /\ UNCHANGED <<build, movementState, weaponState, now, keysPressed,
                    keyEvents, frameTime, shotsFired, burst, held, rendered,
                    autoReloads>>

\* React renders Scene with the updated ammo and the effects register the
\* listeners again with the new callbacks
Render ==
  /\ rendered # ammo
  /\ rendered' = ammo
  /\ UNCHANGED <<build, movementState, weaponState, now, keysPressed,
                 keyEvents, frameTime, shotsFired, burst, held, ammo,
                 reloadTimeoutRef, reloadTimers, autoReloads, ammoEvents>>

\* the next frame can come: the render is done, a timer is pending and the
\* timers that were due have run
FramePending ==
  /\ rendered = ammo
  /\ PendingDue # {}
  /\ \A due \in PendingDue : due > now

\* a frame passes while a timer is pending; GlockModel's useFrame recovers
\* the recoil
FrameAmmo ==
  /\ FramePending
  /\ now' = now + frameTime
  /\ weaponState' = updateRecoilRecovery(weaponState, frameTime, now')
  /\ burst' = IF weaponState' = [NewWeaponState EXCEPT
                                   !.lastShotTime = weaponState.lastShotTime]
               THEN 0 ELSE -1
  /\ UNCHANGED <<build, movementState, keysPressed, keyEvents, frameTime,
                 shotsFired, held, ammo, rendered, reloadTimeoutRef,
                 reloadTimers, autoReloads, ammoEvents>>

NextAmmo ==
  \/ TriggerPull
  \/ ManualReload
  \/ AutoReloadFires
  \/ ReloadTimerExpires
  \/ CancelReload
  \/ Render
  \/ FrameAmmo

SpecAmmo == InitAmmo /\ [][NextAmmo]_vars

\* the same scene when the browser runs the timers that are due, React
\* renders and the frames keep coming.  The last conjunct is weak fairness
\* of FrameAmmo, written with its enabling condition FramePending
SpecAmmoFair ==
  /\ SpecAmmo
  /\ WF_vars(AutoReloadFires)
  /\ WF_vars(ReloadTimerExpires)
  /\ WF_vars(Render)
  /\ ([]<>(~FramePending) \/ []<><<FrameAmmo>>_vars)

----------------------------------------------------------------------------
(* Properties of the stamina system (revision "gun")                       *)

\* the inputs that request a jump
JumpInputs == {i \in AllInputs : i.jump}

\* the stamina a grounded tick regenerates, before the clamp at STAMINA_MAX
Regenerated(delta) == PerFrame(CS2_CONSTANTS_V1.STAMINA_RECOVERY, delta)

\* C1: stamina stays within [0, STAMINA_MAX] after any sequence of
\* updateMovement ticks: in every reachable state, and after one more tick
\* with any input and any frame time.
C1_StaminaBounded ==
  build = "gun" =>
    /\ movementState.stamina >= 0
    /\ movementState.stamina <= CS2_CONSTANTS_V1.STAMINA_MAX
    /\ \A input \in AllInputs, delta \in AllDeltas :
         LET after == updateMovementV1(movementState, input, delta)
         IN /\ after.stamina >= 0
            /\ after.stamina <= CS2_CONSTANTS_V1.STAMINA_MAX

\* a landing whose cost was clamped at 0: the player is back on the ground
\* holding only what that tick regenerated
C1_ClampedLanding ==
  /\ build = "gun"
  /\ movementState.isGrounded
  /\ keyEvents > 0
  /\ movementState.stamina = Regenerated(frameTime)

\* C2: a tick that requests a jump from the ground with stamina above
\* STAMINA_COST ends airborne, with velocity.y equal to JUMP_VELOCITY and the
\* stamina lowered by exactly STAMINA_COST.
C2_JumpTakesOff ==
  (build = "gun" /\ movementState.isGrounded
     /\ movementState.stamina > CS2_CONSTANTS_V1.STAMINA_COST) =>
    \A input \in JumpInputs, delta \in AllDeltas :
      LET after == updateMovementV1(movementState, input, delta)
      IN /\ ~after.isGrounded
         /\ after.velocity.y = CS2_CONSTANTS_V1.JUMP_VELOCITY
         /\ after.stamina = movementState.stamina - CS2_CONSTANTS_V1.STAMINA_COST

\* the state a first jump leaves: airborne at jump speed, one cost paid
C2_JustJumped ==
  /\ build = "gun"
  /\ " " \in keysPressed
  /\ ~movementState.isGrounded
  /\ movementState.velocity.y = CS2_CONSTANTS_V1.JUMP_VELOCITY
  /\ movementState.stamina =
       CS2_CONSTANTS_V1.STAMINA_MAX - CS2_CONSTANTS_V1.STAMINA_COST

Falling(m) == ~m.isGrounded /\ m.velocity.y < 0

\* C4 as stated: the landing tick ends with velocity.y = 0, grounded, and
\* the stamina equal to the stamina before the tick minus STAMINA_LAND_COST.
C4_LandingAsStated ==
  (build = "gun" /\ Falling(movementState)) =>
    \A input \in AllInputs, delta \in AllDeltas :
      LET after == updateMovementV1(movementState, input, delta)
      IN after.isGrounded =>
           /\ after.velocity.y = 0
           /\ after.isGrounded
           /\ after.stamina =
                movementState.stamina - CS2_CONSTANTS_V1.STAMINA_LAND_COST

\* C4, amended: the landing tick ends with velocity.y = 0, grounded, and the
\* stamina equal to min(STAMINA_MAX, max(0, stamina before the tick -
\* STAMINA_LAND_COST) + STAMINA_RECOVERY * delta): the cost is clamped at 0
\* and the landing tick already regenerates.
C4_LandingCostThenRegen ==
  (build = "gun" /\ Falling(movementState)) =>
    \A input \in AllInputs, delta \in AllDeltas :
      LET after == updateMovementV1(movementState, input, delta)
      IN after.isGrounded =>
           /\ after.velocity.y = 0
           /\ after.isGrounded
           /\ after.stamina =
                Min(CS2_CONSTANTS_V1.STAMINA_MAX,
                    Max(0, movementState.stamina
                             - CS2_CONSTANTS_V1.STAMINA_LAND_COST)
                      + Regenerated(delta))

\* the first landing after a first jump from full stamina: one jump cost and
\* one landing cost paid, one tick regenerated
C4_FirstLanding ==
  /\ build = "gun"
  /\ movementState.isGrounded
  /\ movementState.velocity.y = 0
  /\ movementState.stamina =
       CS2_CONSTANTS_V1.STAMINA_MAX - CS2_CONSTANTS_V1.STAMINA_COST
         - CS2_CONSTANTS_V1.STAMINA_LAND_COST + Regenerated(frameTime)

----------------------------------------------------------------------------
(* Properties of friction and acceleration                                 *)

\* the inputs with forward = 0, right = 0 and jump = false
ZeroInputs == {i \in AllInputs : i.forward = 0 /\ i.right = 0 /\ ~i.jump}

\* no key held
NoInput == GatherInput({})

\* the squared planar (x, z) speed
PlanarSq(v) == v.x * v.x + v.z * v.z

StopTicks(delta) == (55 * 16 + delta - 1) \div delta

MaxTicks == 60

\* grounded and not moving
AtRest(m) == m.isGrounded /\ m.velocity = Vec3(0, 0, 0)

\* forward and right held together; forward held alone
DiagonalInput == GatherInput({"w", "d"})

ForwardInput == GatherInput({"w"})

\* the largest moveSpeed of the revision
TopSpeed(b) ==
  IF b = "gun" THEN CS2_CONSTANTS_V1.RUN_SPEED ELSE CS2_CONSTANTS.WALK_SPEED

\* m is a state of a run with the keys held: its planar speed is at or below
\* cap, and so is the speed after each of the next k ticks
RECURSIVE NeverFaster(_, _, _, _, _, _)
NeverFaster(b, m, input, delta, k, cap) ==
  LET after == Step(b, m, input, delta)
  IN /\ PlanarSq(m.velocity) <= cap * cap
     /\ \/ k = 0
        \/ after = m
        \/ NeverFaster(b, after, input, delta, k - 1, cap)

\* C7: from rest, with the camera fixed and (forward = 1, right = 1) held on
\* every tick, the planar speed never exceeds moveSpeed, the most a single
\* held axis reaches.  Speeds are compared up to 0.002, the rounding of the
\* fixed-point arithmetic.
C7_NoDiagonalBoost ==
  (AtRest(movementState) /\ keysPressed = {"w", "d"}) =>
    \A delta \in AllDeltas :
      NeverFaster(build, movementState, DiagonalInput, delta, MaxTicks,
                  TopSpeed(build) + 2)

\* both keys went down before the first frame and the player now runs along
\* the diagonal at moveSpeed
C7_DiagonalAtTopSpeed ==
  /\ keysPressed = {"w", "d"}
  /\ movementState.isGrounded
  /\ movementState.velocity.x = -movementState.velocity.z
  /\ movementState.velocity.x > 0
  /\ Sqrt(PlanarSq(movementState.velocity)) >= TopSpeed(build) - 2

\* the speed is within 1 % of WALK_SPEED
Settled(speed) ==
  /\ 100 * speed >= 99 * CS2_CONSTANTS.WALK_SPEED
  /\ 100 * speed <= 101 * CS2_CONSTANTS.WALK_SPEED

\* m is the state after tick i of a run with forward held at 0.016 s a
\* frame, and before the speed a tick earlier: tick i did not lower the
\* speed, from tick 15 on the speed is within 1 % of WALK_SPEED, and the same
\* goes for the ticks up to MaxTicks (all alike once a tick changes nothing)
RECURSIVE Settles(_, _, _)
Settles(m, before, i) ==
  LET speed == Length3(m.velocity)
      after == Step("cs2", m, ForwardInput, 16)
  IN /\ speed >= before
     /\ (i >= 15 \/ after = m) => Settled(speed)
     /\ \/ i >= MaxTicks
        \/ after = m
        \/ Settles(after, speed, i + 1)

\* C8: from rest with the constants of cs2Physics.ts (moveSpeed 2.6,
\* ACCELERATION 50, GROUND_FRICTION 12), forward = 1 held for 60 ticks of
\* 0.016 s: the speed never decreases from one tick to the next, and from
\* tick 15 on it is within 1 % of 2.6.
C8_AcceleratesAndSettles ==
  (build = "cs2" /\ AtRest(movementState) /\ keysPressed = {"w"}) =>
    Settles(Step("cs2", movementState, ForwardInput, 16), 0, 1)

\* forward is the only key ever pressed and the player walks at exactly 2.6
C8_WalkingAtTopSpeed ==
  /\ build = "cs2"
  /\ frameTime = 16
  /\ keysPressed = {"w"}
  /\ keyEvents = 1
  /\ movementState.isGrounded
  /\ movementState.velocity = Vec3(0, 0, -CS2_CONSTANTS.WALK_SPEED)

----------------------------------------------------------------------------
(* Properties of the recoil engine.  The variable burst counts the         *)
(* applyRecoil(1) calls made since recoilIndex and totalRecoil were last   *)
(* both zero, and is -1 once a recovery call or another multiplier has     *)
(* come in between.                                                        *)

\* the sum of the first n entries the pattern yields, wrapping at its end
RECURSIVE PatternSum(_, _)
PatternSum(b, n) ==
  IF n = 0 THEN Vec2(0, 0)
  ELSE LET rest == PatternSum(b, n - 1)
           e == Pattern(b)[((n - 1) % Len(Pattern(b))) + 1]
       IN Vec2(rest.x + e.x, rest.y + e.y)

\* the scale 0.3 applied to a pattern value stored times 10, as a recoil
Scaled(v) == Vec2(v.x * RecoilScaleTenths * 10, v.y * RecoilScaleTenths * 10)

\* C9: after N consecutive applyRecoil calls with multiplier 1 and no
\* recovery in between, totalRecoil is the scale times the sum of the first
\* N pattern entries and recoilIndex is N; the next call adds the scale
\* times pattern[N mod length].
C9_BurstAccumulates ==
  burst >= 0 =>
    /\ weaponState.recoilIndex = burst
    /\ weaponState.totalRecoil = Scaled(PatternSum(build, burst))
    /\ LET next == applyRecoil(build, weaponState, 100, now).totalRecoil
           e == Scaled(Pattern(build)[(burst % Len(Pattern(build))) + 1])
       IN /\ next.x - weaponState.totalRecoil.x = e.x
          /\ next.y - weaponState.totalRecoil.y = e.y

\* six shots from the five-entry pattern: the sixth used entry 0 again
C9_SixthShotWraps ==
  /\ build = "cs2"
  /\ burst = Len(glockRecoilPattern) + 1
  /\ weaponState.recoilIndex = Len(glockRecoilPattern) + 1
  /\ weaponState.totalRecoil = Vec2(60, -5250)

\* the squared length of a recoil vector
LengthSq2(v) == v.x * v.x + v.y * v.y

\* C10: one updateRecoilRecovery call makes |totalRecoil| strictly smaller
\* while it is nonzero, by the whole recovery step 3 * delta (up to the
\* rounding of the arithmetic) or down to exactly zero when less is left, so
\* that finitely many calls reach zero; no component changes sign or passes
\* zero; and a zero totalRecoil stays zero.
C10_RecoveryShrinksToZero ==
  \A delta \in AllDeltas :
    LET total == weaponState.totalRecoil
        after == Recover(total, delta)
    IN /\ total # Vec2(0, 0) => LengthSq2(after) < LengthSq2(total)
       /\ Length2(after) <= Max(0, Length2(total) - RecoilRecovery * delta) + 1
       /\ RecoilRecovery * delta >= Length2(total) => after = Vec2(0, 0)
       /\ total.x * after.x >= 0 /\ Abs(after.x) <= Abs(total.x)
       /\ total.y * after.y >= 0 /\ Abs(after.y) <= Abs(total.y)
       /\ total = Vec2(0, 0) => after = Vec2(0, 0)
       /\ updateRecoilRecovery(weaponState, delta, now).totalRecoil = after

\* shots were fired and the frames since have brought totalRecoil back to
\* exactly zero
C10_RecoveredToZero ==
  /\ shotsFired >= 2
  /\ burst = -1
  /\ weaponState.totalRecoil = Vec2(0, 0)

----------------------------------------------------------------------------
(* Properties of calculateInaccuracy (revision "gun")                      *)

\* C11: for a MovementState at rest and grounded, calculateInaccuracy is
\* exactly BASE_INACCURACY when not crouching and exactly
\* BASE_INACCURACY * CROUCH_ACCURACY_BONUS when crouching, in every
\* reachable state and in the state one more tick leaves.
C11_InaccuracyBaseline ==
  build = "gun" =>
    LET baseline(m) ==
          (m.isGrounded /\ m.velocity = Vec3(0, 0, 0)) =>
            calculateInaccuracy(m) =
              IF m.isCrouching
              THEN RDiv(CS2_CONSTANTS_V1.BASE_INACCURACY
                          * CS2_CONSTANTS_V1.CROUCH_ACCURACY_BONUS_PCT, 100)
              ELSE CS2_CONSTANTS_V1.BASE_INACCURACY
    IN /\ baseline(movementState)
       /\ \A input \in AllInputs, delta \in AllDeltas :
            baseline(updateMovementV1(movementState, input, delta))

\* the player crouches at rest on the ground: the inaccuracy is 0.25
C11_CrouchedAtRest ==
  /\ build = "gun"
  /\ movementState.isGrounded
  /\ movementState.isCrouching
  /\ movementState.velocity = Vec3(0, 0, 0)
  /\ calculateInaccuracy(movementState) = 250

----------------------------------------------------------------------------
(* Properties of the ground check                                          *)

\* the ground threshold of a state: the smoothed eye height currentHeight,
\* or the fixed 1.6 of revision "gun"
GroundThreshold(b, m) == IF b = "gun" THEN GroundY1 ELSE m.currentHeight

\* C12: after every updateMovement tick, with any input (crouch toggles
\* included) and any frame time, a grounded player's position.y is not
\* below the ground threshold of the state the tick leaves.
C12_GroundedNotBelowThreshold ==
  /\ movementState.isGrounded =>
       movementState.position.y >= GroundThreshold(build, movementState)
  /\ \A input \in AllInputs, delta \in AllDeltas :
       LET after == Step(build, movementState, input, delta)
       IN after.isGrounded => after.position.y >= GroundThreshold(build, after)

\* the crouch key went down and the player has come to stand on a lowered
\* eye height
C12_StandingLowered ==
  /\ build = "cs2"
  /\ "shift" \in keysPressed
  /\ movementState.isGrounded
  /\ movementState.currentHeight < CS2_CONSTANTS.HEAD_HEIGHT
  /\ movementState.position.y = movementState.currentHeight

----------------------------------------------------------------------------
(* Properties of the getters                                               *)

\* C13: a value returned by getMovementState is a snapshot: what the caller
\* reads through it is not changed by a later updateMovement call.
C13_SnapshotUnchanged ==
  [][held.kind # "none" =>
       ReadThrough(held, movementState') = ReadThrough(held, movementState)]_vars

----------------------------------------------------------------------------
(* Properties of the scene: movement and recoil together                   *)

\* C14: the movement integrator and the recoil engine share no state.  In
\* any interleaving of updateMovement, applyRecoil and updateRecoilRecovery,
\* a step that changes the MovementState leaves every WeaponState field
\* unchanged and is updateMovement applied to the old MovementState alone;
\* a step that changes the WeaponState leaves every MovementState field
\* unchanged and is applyRecoil or updateRecoilRecovery applied to the old
\* WeaponState alone.
C14_NoSharedState ==
  [][/\ movementState' # movementState =>
          /\ weaponState' = weaponState
          /\ movementState' =
               Step(build, movementState, GatherInput(keysPressed), frameTime)
     /\ weaponState' # weaponState =>
          /\ movementState' = movementState
          /\ \/ \E multiplierPct \in Multipliers :
                  weaponState' = applyRecoil(build, weaponState, multiplierPct, now)
             \/ weaponState' = updateRecoilRecovery(weaponState, frameTime, now')
    ]_vars

\* the player is moving and a shot's recoil is part-way recovered: all three
\* operations have run on the one engine
C14_MovingAndRecovering ==
  /\ keyEvents >= 1
  /\ shotsFired >= 1
  /\ now > 0
  /\ movementState.velocity # Vec3(0, 0, 0)
  /\ weaponState.totalRecoil # Vec2(0, 0)
  /\ weaponState.totalRecoil # ShotRecoil(build, 0, 100)

----------------------------------------------------------------------------
(* Properties of the order of the steps within a tick                      *)

\* the velocity a tick has after friction on the still-grounded player
\* followed by one branch of the acceleration step: "air" is airAccelerate
\* with the air-scaled wish speed (Gun.tsx) or accelerate with
\* AIR_ACCELERATION (cs2Physics.ts), "ground" is accelerate with ACCELERATION
FrictionThenBranch(b, m, input, delta, branch) ==
  IF b = "gun"
  THEN LET f == applyFrictionV1(CrouchV1(GravityV1(m, delta), input), delta)
           wishDir == WishDirV1(input)
       IN IF branch = "air"
          THEN airAccelerate(f, wishDir,
                 RDiv(f.moveSpeed * CS2_CONSTANTS_V1.AIR_CONTROL_PCT, 100),
                 delta).velocity
          ELSE accelerate(f, wishDir, f.moveSpeed,
                 CS2_CONSTANTS_V1.ACCELERATION, delta).velocity
  ELSE LET f == applyFriction(Gravity(CrouchStep(m, input, delta), delta), delta)
           wishDirLength == WishDirLength(input)
           wishDir == DivideByLength(RawWishDir(input), wishDirLength)
           normalizedSpeed == NormalizedSpeed(wishDirLength, WishSpeed(f))
       IN IF wishDirLength > WishDirEpsilon
          THEN accelerate(f, wishDir, normalizedSpeed,
                 IF branch = "air" THEN CS2_CONSTANTS.AIR_ACCELERATION
                                   ELSE CS2_CONSTANTS.ACCELERATION,
                 delta).velocity
          ELSE f.velocity

\* the jump of a tick from state m succeeds
JumpSucceeds(b, m) ==
  /\ m.isGrounded
  /\ b = "gun" => m.stamina > CS2_CONSTANTS_V1.STAMINA_COST

\* the planar velocity after a tick in which the jump succeeds is the one
\* friction and the given branch of the acceleration step leave, and the
\* vertical velocity is the jump's
JumpTickTakes(branch) ==
  JumpSucceeds(build, movementState) =>
    \A input \in JumpInputs, delta \in AllDeltas :
      LET after == Step(build, movementState, input, delta)
          expected == FrictionThenBranch(build, movementState, input, delta, branch)
      IN /\ after.velocity.x = expected.x
         /\ after.velocity.z = expected.z
         /\ after.velocity.y =
              IF build = "gun" THEN CS2_CONSTANTS_V1.JUMP_VELOCITY
                               ELSE CS2_CONSTANTS.JUMP_VELOCITY

----------------------------------------------------------------------------
(* Properties of applyFriction and accelerate as functions                 *)

\* applyFriction of the revision
Friction(b, m, delta) ==
  IF b = "gun" THEN applyFrictionV1(m, delta) ELSE applyFriction(m, delta)

\* the drop applyFriction computes for a speed
FrictionDrop(b, speed, delta) ==
  IF b = "gun"
  THEN PerFrame(speed * CS2_CONSTANTS_V1.GROUND_FRICTION, delta)
  ELSE PerFrame(Max(speed, CS2_CONSTANTS.STOP_SPEED) * CS2_CONSTANTS.GROUND_FRICTION,
                delta)

\* w = k * v for a scalar k with 0 <= k <= 1, up to the rounding of one
\* fixed-point product per component: no component changes sign or grows,
\* and the two vectors are parallel
ScaledDown(v, w) ==
  /\ v.x * w.x >= 0 /\ Abs(w.x) <= Abs(v.x)
  /\ v.y * w.y >= 0 /\ Abs(w.y) <= Abs(v.y)
  /\ v.z * w.z >= 0 /\ Abs(w.z) <= Abs(v.z)
  /\ 2 * Abs(v.x * w.z - v.z * w.x) <= Abs(v.x) + Abs(v.z)
  /\ 2 * Abs(v.x * w.y - v.y * w.x) <= Abs(v.x) + Abs(v.y)
  /\ 2 * Abs(v.y * w.z - v.z * w.y) <= Abs(v.y) + Abs(v.z)

\* friction on the grounded state m scales the velocity down without
\* flipping it, and stops it when the drop it computes is at least the speed
FrictionNeverFlips(b, m, delta) ==
  LET v == m.velocity
      speed == Length3(v)
      after == Friction(b, m, delta).velocity
  IN /\ ScaledDown(v, after)
     /\ (speed >= SlowSpeed /\ FrictionDrop(b, speed, delta) >= speed) =>
          after = Vec3(0, 0, 0)

\* the grounded velocities applyFriction is tried on besides the reachable
\* ones: from 0.05 to 2.6 along either axis and across
FrictionSpeeds == {-2600, -700, -90, 0, 50, 400, 1000, 2600}

\* C16: applyFriction never flips the direction of motion.  For every
\* grounded velocity v and every frame time, the velocity afterwards is
\* k * v with 0 <= k <= 1, and it is exactly zero whenever the drop the
\* function computes is at least the speed.
C16_FrictionNeverFlips ==
  /\ movementState.isGrounded =>
       \A delta \in AllDeltas : FrictionNeverFlips(build, movementState, delta)
  /\ (keyEvents = 0 /\ held = NoHandle) =>
       \A x \in FrictionSpeeds, z \in FrictionSpeeds, delta \in AllDeltas :
         FrictionNeverFlips(build,
           [movementState EXCEPT !.velocity = Vec3(x, 0, z), !.isGrounded = TRUE],
           delta)

\* the keys were let go and the player has slowed down, at 0.1 s a frame, to
\* a speed below the drop of the next tick: friction stops the player
\* instead of reversing it
C16_StoppedByFriction ==
  /\ build = "cs2"
  /\ frameTime = 100
  /\ keysPressed = {}
  /\ movementState.isGrounded
  /\ Length3(movementState.velocity) >= SlowSpeed
  /\ FrictionDrop(build, Length3(movementState.velocity), frameTime)
       > Length3(movementState.velocity)
  /\ applyFriction(movementState, frameTime).velocity = Vec3(0, 0, 0)

\* the unit wish directions of the inputs that have one
WishDirs == {WishDirV1(i) : i \in {j \in AllInputs : WishDirLength(j) > 0}}

\* the wish speeds the revisions pass: air-scaled run, crouch, walk
WishSpeeds == {RDiv(CS2_CONSTANTS_V1.RUN_SPEED * CS2_CONSTANTS_V1.AIR_CONTROL_PCT, 100),
               CS2_CONSTANTS.CROUCH_MOVE_SPEED, CS2_CONSTANTS.WALK_SPEED}

\* the acceleration constants the revisions pass
Accels == {CS2_CONSTANTS_V1.AIR_ACCELERATION, CS2_CONSTANTS.AIR_ACCELERATION,
           CS2_CONSTANTS_V1.ACCELERATION, CS2_CONSTANTS.ACCELERATION}

\* accelerate on state m: nothing changes when velocity . wishDir is already
\* at wishSpeed or above; otherwise the velocity changes along wishDir only
\* (velocity.y and the part across wishDir stay), velocity . wishDir rises by
\* min(accel * delta * wishSpeed, wishSpeed - velocity . wishDir), and it
\* does not end above wishSpeed.  Dot products are compared up to 0.002,
\* the rounding of a fixed-point unit vector.
AcceleratesAlong(m, wishDir, wishSpeed, accel, delta) ==
  LET after == accelerate(m, wishDir, wishSpeed, accel, delta)
      currentSpeed == DotDir(m.velocity, wishDir)
      addSpeed == wishSpeed - currentSpeed
      gain == DotDir(after.velocity, wishDir) - currentSpeed
      dx == after.velocity.x - m.velocity.x
      dz == after.velocity.z - m.velocity.z
  IN IF addSpeed <= 0
     THEN after = m
     ELSE /\ Abs(gain - Min(PerFrame(accel * wishSpeed, delta), addSpeed)) <= 2
          /\ DotDir(after.velocity, wishDir) <= wishSpeed + 2
          /\ after.velocity.y = m.velocity.y
          /\ 2 * Abs(dx * wishDir.z - dz * wishDir.x)
               <= Abs(wishDir.x) + Abs(wishDir.z)
          /\ after = [m EXCEPT !.velocity = after.velocity]

\* C17: accelerate(wishDir, wishSpeed, accel, delta) with a unit wishDir is
\* a no-op when velocity . wishDir >= wishSpeed; otherwise it raises
\* velocity . wishDir by min(accel * delta * wishSpeed, wishSpeed -
\* velocity . wishDir), never past wishSpeed, and leaves the components
\* across wishDir unchanged.  airAccelerate is accelerate with
\* AIR_ACCELERATION for the wish speeds below its cap of 30.
C17_AccelerateAlongWishDir ==
  \A wishDir \in WishDirs, wishSpeed \in WishSpeeds, delta \in AllDeltas :
    /\ \A accel \in Accels :
         AcceleratesAlong(movementState, wishDir, wishSpeed, accel, delta)
    /\ airAccelerate(movementState, wishDir, wishSpeed, delta)
         = accelerate(movementState, wishDir, wishSpeed,
                      CS2_CONSTANTS_V1.AIR_ACCELERATION, delta)

\* the player walked forward at full speed and then pressed right as well:
\* accelerate is pulling the velocity toward the diagonal, which it has not
\* reached yet
C17_TurningToDiagonal ==
  /\ build = "cs2"
  /\ keysPressed = {"w", "d"}
  /\ keyEvents = 2
  /\ movementState.isGrounded
  /\ movementState.velocity.x > 0
  /\ movementState.velocity.z < -movementState.velocity.x
  /\ DotDir(movementState.velocity, WishDirV1(DiagonalInput))
       >= CS2_CONSTANTS.WALK_SPEED - 2

----------------------------------------------------------------------------
(* Properties of landing                                                   *)

\* C18 as stated: at the end of every updateMovement tick that ends
\* grounded, velocity.y is exactly 0, for any jump and crouch inputs and any
\* frame time.
C18_GroundedMeansNoVerticalSpeed ==
  /\ movementState.isGrounded => movementState.velocity.y = 0
  /\ \A input \in AllInputs, delta \in AllDeltas :
       LET after == Step(build, movementState, input, delta)
       IN after.isGrounded => after.velocity.y = 0

\* C18 as the code has it: at the end of a tick that ends grounded,
\* velocity.y is never negative (a landing never carries its fall speed on).
\* It is exactly 0 in Gun.tsx.  In cs2Physics.ts it is exactly 0 unless the
\* smoothed eye height rose in that tick past a player who was still moving
\* up: the ground check then grounds the player and keeps the positive
\* velocity.y.
C18_GroundedNeverFalling ==
  /\ movementState.isGrounded => movementState.velocity.y >= 0
  /\ \A input \in AllInputs, delta \in AllDeltas :
       LET after == Step(build, movementState, input, delta)
       IN after.isGrounded =>
            /\ after.velocity.y >= 0
            /\ after.velocity.y > 0 =>
                 /\ build = "cs2"
                 /\ after.currentHeight > movementState.currentHeight
                 /\ movementState.velocity.y > 0

\* the player of cs2Physics.ts is on the way up from a jump made while
\* crouching, and a tick that releases the crouch key lifts the eye height
\* past the player: the tick ends grounded with velocity.y still positive
C18_GroundRisesUnderJump ==
  /\ build = "cs2"
  /\ ~movementState.isGrounded
  /\ movementState.velocity.y > 0
  /\ \E delta \in AllDeltas :
       LET after == Step(build, movementState, NoInput, delta)
       IN after.isGrounded /\ after.velocity.y > 0

----------------------------------------------------------------------------
(* Properties of stamina recovery (revision "gun")                         *)

\* C19: stamina regenerates only while grounded.  A tick that ends airborne
\* never increases stamina; a tick that ends grounded leaves the stamina it
\* started with, less the landing cost (clamped at 0) if the tick started
\* airborne, plus STAMINA_RECOVERY * delta, capped at STAMINA_MAX.
C19_RegenOnlyGrounded ==
  build = "gun" =>
    \A input \in AllInputs, delta \in AllDeltas :
      LET after == updateMovementV1(movementState, input, delta)
          landed == IF ~movementState.isGrounded
                    THEN Max(0, movementState.stamina
                                  - CS2_CONSTANTS_V1.STAMINA_LAND_COST)
                    ELSE movementState.stamina
      IN IF after.isGrounded
         THEN after.stamina =
                Min(CS2_CONSTANTS_V1.STAMINA_MAX, landed + Regenerated(delta))
         ELSE after.stamina <= movementState.stamina

\* the player is falling after a first jump and still has exactly the
\* stamina the jump left: the airborne ticks regenerated nothing
C19_FallingWithoutRegen ==
  /\ build = "gun"
  /\ ~movementState.isGrounded
  /\ movementState.velocity.y < 0
  /\ movementState.stamina =
       CS2_CONSTANTS_V1.STAMINA_MAX - CS2_CONSTANTS_V1.STAMINA_COST

----------------------------------------------------------------------------
(* Properties of the recoilIndex decay                                     *)

\* times since the last shot, in milliseconds, around the decay threshold
Elapsed == {0, 1, 399, 400, 401, 1000}

\* the frame times of a pause
PauseDeltas == {d \in AllDeltas : d >= 100}

\* k calls of updateRecoilRecovery(delta), one every delta milliseconds from
\* time t on, with no shot in between
RECURSIVE Pause(_, _, _, _)
Pause(w, t, delta, k) ==
  IF k = 0 THEN w
  ELSE Pause(updateRecoilRecovery(w, delta, t + delta), t + delta, delta, k - 1)

\* C20: updateRecoilRecovery leaves recoilIndex unchanged while the time
\* since the last applyRecoil is at most 0.4 s and otherwise lowers it by
\* exactly one per call, stopping at 0; recoilIndex is a non-negative
\* integer under any interleaving of shots and recovery calls; and a pause
\* of 0.4 s followed by one call per remaining step brings it back to 0.
C20_IndexWalksBack ==
  /\ weaponState.recoilIndex \in Nat
  /\ \A elapsed \in Elapsed :
       LET t == weaponState.lastShotTime + elapsed
           after == updateRecoilRecovery(weaponState, frameTime, t)
       IN /\ after.recoilIndex \in Nat
          /\ after.recoilIndex =
               IF elapsed <= DecayThresholdMs
               THEN weaponState.recoilIndex
               ELSE Max(0, weaponState.recoilIndex - 1)
  /\ \A multiplierPct \in Multipliers :
       applyRecoil(build, weaponState, multiplierPct, now).recoilIndex
         = weaponState.recoilIndex + 1
  /\ \A delta \in PauseDeltas :
       LET calls == DecayThresholdMs \div delta + 1 + weaponState.recoilIndex
       IN Pause(weaponState, now, delta, calls).recoilIndex = 0

\* a burst was fired and the frames of the pause after it have walked
\* recoilIndex all the way back to 0
C20_WalkedBackToZero ==
  /\ shotsFired >= 3
  /\ weaponState.lastShotTime = 0
  /\ now - weaponState.lastShotTime > DecayThresholdMs
  /\ weaponState.recoilIndex = 0

----------------------------------------------------------------------------
(* Properties of applyRecoil                                               *)

\* recoilIndex values below, at and beyond the length of either pattern
RecoilIndices == {0, 4, 5, 9, 10, 13}

\* multipliers in percent: a half, 1, and the last-shot 1.24
AnyMultipliers == {50, 100, 124}

\* the multiplier a call applyRecoil(m) applies: Gun.tsx's applyRecoil takes
\* no argument and scales by RECOIL_PATTERN_SCALE alone
Applied(b, multiplierPct) == IF b = "gun" THEN 100 ELSE multiplierPct

\* pattern[i mod len] times the scale 0.3 times the multiplier, as a recoil
Contribution(b, i, pct) ==
  LET e == Pattern(b)[(i % Len(Pattern(b))) + 1]
  IN Vec2(RDiv(e.x * RecoilScaleTenths * pct, 10),
          RDiv(e.y * RecoilScaleTenths * pct, 10))

\* C21: for every recoilIndex i (also past the end of the pattern) and every
\* multiplier m, applyRecoil(m) returns pattern[i mod len] * scale * m, adds
\* exactly that offset to totalRecoil whatever totalRecoil held, increments
\* recoilIndex by one and records the time of the call as lastShotTime; a
\* second call with another multiplier adds its own contribution only, and
\* leaves the contribution of the first as it was.
C21_ShotContribution ==
  \A i \in RecoilIndices, m1 \in AnyMultipliers :
    LET w == [weaponState EXCEPT !.recoilIndex = i]
        first == Contribution(build, i, Applied(build, m1))
        w1 == applyRecoil(build, w, m1, now + 1)
        sum1 == Vec2(w.totalRecoil.x + first.x, w.totalRecoil.y + first.y)
    IN /\ ShotRecoil(build, i, m1) = first
       /\ w1 = [recoilIndex |-> i + 1, totalRecoil |-> sum1,
                lastShotTime |-> now + 1]
       /\ \A m2 \in AnyMultipliers :
            LET second == Contribution(build, i + 1, Applied(build, m2))
            IN applyRecoil(build, w1, m2, now + 2)
                 = [recoilIndex |-> i + 2,
                    totalRecoil |-> Vec2(sum1.x + second.x, sum1.y + second.y),
                    lastShotTime |-> now + 2]

\* a magazine was fired without a pause: five shots with multiplier 1 and
\* the last, from the wrapped index 5, with 1.24
C21_LastShotKicksHarder ==
  /\ build = "cs2"
  /\ now = 0
  /\ shotsFired = Len(glockRecoilPattern) + 1
  /\ weaponState.recoilIndex = Len(glockRecoilPattern) + 1
  /\ burst = -1
  /\ LET five == Scaled(PatternSum("cs2", Len(glockRecoilPattern)))
         last == Contribution("cs2", Len(glockRecoilPattern), 124)
     IN weaponState.totalRecoil = Vec2(five.x + last.x, five.y + last.y)

----------------------------------------------------------------------------
(* Properties of the smoothed crouch height (revision "cs2")               *)

\* the smoothed height is within the tolerance 0.1 of the crouch height
NearCrouchHeight(height) ==
  Abs(height - CS2_CONSTANTS.CROUCH_HEIGHT) < CrouchTolerance

\* the planar velocity a tick leaves when its wish speed is wishSpeed:
\* friction on the velocity the tick starts with, then the acceleration
\* step toward the wish direction
PlanarAfter(m, input, delta, wishSpeed) ==
  LET f == applyFriction(Gravity(m, delta), delta)
      wishDirLength == WishDirLength(input)
      wishDir == DivideByLength(RawWishDir(input), wishDirLength)
      normalizedSpeed == RDiv(Min(wishDirLength, DirScale) * wishSpeed, DirScale)
      accel == IF m.isGrounded THEN CS2_CONSTANTS.ACCELERATION
                               ELSE CS2_CONSTANTS.AIR_ACCELERATION
  IN IF wishDirLength > WishDirEpsilon
     THEN accelerate(f, wishDir, normalizedSpeed, accel, delta).velocity
     ELSE f.velocity

----------------------------------------------------------------------------
(* Properties of a tick without a wish direction                           *)

\* the keys of both directions of both axes, jump and crouch
AxisKeys == {"w", "s", "a", "d", " ", "shift"}

\* the inputs whose wish direction has length zero: no direction key, or
\* direction keys that cancel
StillInputs ==
  {i \in {GatherInput(ks) : ks \in SUBSET AxisKeys} : WishDirLength(i) = 0}

\* the tick divides the wish direction by its length
DividesByLength(b, input) ==
  IF b = "gun" THEN WishDirLength(input) > 0
               ELSE WishDirLength(input) > WishDirEpsilon

\* the state the acceleration step of a tick starts from
BeforeAccel(b, m, input, delta) ==
  IF b = "gun"
  THEN JumpV1(applyFrictionV1(CrouchV1(GravityV1(m, delta), input), delta), input)
  ELSE applyFriction(Gravity(CrouchStep(m, input, delta), delta), delta)

\* the state the acceleration step of a tick ends in
AfterAccel(b, m, input, delta) ==
  IF b = "gun"
  THEN AccelStepV1(BeforeAccel(b, m, input, delta), WishDirV1(input), delta)
  ELSE MoveStep(Gravity(CrouchStep(m, input, delta), delta), input, delta)

\* C23: a tick whose wish direction has length zero (no direction key held,
\* or keys that cancel) does not divide by that length, and its
\* acceleration step leaves the velocity as friction left it, grounded or
\* airborne; the planar velocity at the end of the tick is that velocity.
C23_ZeroWishDirLeavesVelocity ==
  /\ GatherInput({"w", "s"}) \in StillInputs
  /\ GatherInput({"a", "d", " "}) \in StillInputs
  /\ \A input \in StillInputs, delta \in AllDeltas :
       LET before == BeforeAccel(build, movementState, input, delta)
           after == Step(build, movementState, input, delta)
       IN /\ ~DividesByLength(build, input)
          /\ AfterAccel(build, movementState, input, delta).velocity = before.velocity
          /\ after.velocity.x = before.velocity.x
          /\ after.velocity.z = before.velocity.z
  /\ \A input \in AllInputs :
       DividesByLength(build, input) => WishDirLength(input) > 0

\* jump alone is held on Gun.tsx and the player is on the way down: the
\* ticks since the jump ran the airborne branch with a zero wish direction
C23_FallingStraightDown ==
  /\ build = "gun"
  /\ keysPressed = {" "}
  /\ ~movementState.isGrounded
  /\ movementState.velocity.y < 0
  /\ movementState.velocity.x = 0
  /\ movementState.velocity.z = 0

----------------------------------------------------------------------------
(* Properties of a flight                                                  *)

\* GRAVITY of the revision
GravityOf(b) ==
  IF b = "gun" THEN CS2_CONSTANTS_V1.GRAVITY ELSE CS2_CONSTANTS.GRAVITY

\* the lowest height the ground check of the revision compares against
LowestGround(b) == IF b = "gun" THEN GroundY1 ELSE CS2_CONSTANTS.CROUCH_HEIGHT

\* the highest height the ground check of the revision compares against
HighestGround(b) == IF b = "gun" THEN GroundY1 ELSE CS2_CONSTANTS.HEAD_HEIGHT

\* the number of airborne ticks of frame time delta after which a player
\* with vertical speed vy at height y is at or below the lowest ground, when
\* every tick subtracts GRAVITY * delta from vy and adds vy * delta to y
RECURSIVE FallTicks(_, _, _, _)
FallTicks(b, vy, y, delta) ==
  IF y <= LowestGround(b) THEN 0
  ELSE LET v == vy - PerFrame(GravityOf(b), delta)
       IN 1 + FallTicks(b, v, y + v * delta, delta)

\* the longest flight: a jump from the highest ground
FlightBound(b, delta) ==
  LET jump == IF b = "gun" THEN CS2_CONSTANTS_V1.JUMP_VELOCITY
                           ELSE CS2_CONSTANTS.JUMP_VELOCITY
  IN 1 + FallTicks(b, jump, HighestGround(b) + jump * delta, delta)

\* the player is on the ground, at the height the ground check compares
\* against
Landed(b, m) == m.isGrounded /\ m.position.y = GroundThreshold(b, m)

\* k more ticks with the same input bring the player down: one of them ends
\* landed at the ground threshold
RECURSIVE LandsWithin(_, _, _, _, _)
LandsWithin(b, m, input, delta, k) ==
  IF k = 0 THEN FALSE
  ELSE LET after == Step(b, m, input, delta)
       IN Landed(b, after) \/ LandsWithin(b, after, input, delta, k - 1)

\* C24: every successful jump is followed by a landing.  With a fixed frame
\* time, the tick of a jump ends airborne; every tick that starts airborne
\* integrates gravity whatever the input, and ends either airborne one step
\* further along the ballistic curve or landed at the ground threshold
\* because that step reached it; the ticks the curve needs to reach the
\* lowest ground are at most those of the longest flight and one fewer
\* after every airborne tick; and with the held keys the player is landed
\* within that many ticks.
C24_JumpIsFollowedByLanding ==
  /\ ~movementState.isGrounded =>
       LET ticks == FallTicks(build, movementState.velocity.y,
                              movementState.position.y, frameTime)
       IN /\ movementState.position.y > LowestGround(build)
          /\ ticks <= FlightBound(build, frameTime)
          /\ \A input \in AllInputs :
               LET after == Step(build, movementState, input, frameTime)
                   v == movementState.velocity.y
                          - PerFrame(GravityOf(build), frameTime)
                   y == movementState.position.y + v * frameTime
               IN IF after.isGrounded
                  THEN /\ y <= GroundThreshold(build, after)
                       /\ after.position.y = GroundThreshold(build, after)
                  ELSE /\ after.velocity.y = v
                       /\ after.position.y = y
                       /\ y > LowestGround(build)
                       /\ FallTicks(build, v, y, frameTime) = ticks - 1
          /\ LandsWithin(build, movementState, GatherInput(keysPressed),
                         frameTime, ticks)
  /\ JumpSucceeds(build, movementState) =>
       \A input \in JumpInputs :
         ~Step(build, movementState, input, frameTime).isGrounded

\* jump was held on Gun.tsx through two flights: both jump costs and a
\* landing cost are paid and the player is back on the ground
C24_LandedTwice ==
  /\ build = "gun"
  /\ keysPressed = {" "}
  /\ Landed(build, movementState)
  /\ movementState.velocity.y = 0
  /\ movementState.stamina < CS2_CONSTANTS_V1.STAMINA_MAX
                               - 2 * CS2_CONSTANTS_V1.STAMINA_COST
                               - CS2_CONSTANTS_V1.STAMINA_LAND_COST

----------------------------------------------------------------------------
(* Properties of a held jump key (revision "gun")                          *)

\* the tick from m to after started a jump: the jump speed is set, the jump
\* cost is paid and the tick ends airborne
JumpStarted(m, after) ==
  /\ after.velocity.y = CS2_CONSTANTS_V1.JUMP_VELOCITY
  /\ after.stamina = m.stamina - CS2_CONSTANTS_V1.STAMINA_COST
  /\ ~after.isGrounded

\* the ticks a grounded player with this stamina is refused before stamina
\* exceeds STAMINA_COST
RefusedTicks(stamina, delta) ==
  (CS2_CONSTANTS_V1.STAMINA_COST - stamina) \div Regenerated(delta) + 1

\* with the same input on every tick, the first k ticks leave the player
\* grounded with more stamina than before and the tick after them starts a
\* jump
RECURSIVE RefusedThenJumps(_, _, _, _)
RefusedThenJumps(m, input, delta, k) ==
  LET after == updateMovementV1(m, input, delta)
  IN IF k = 0 THEN JumpStarted(m, after)
     ELSE /\ after.isGrounded
          /\ after.stamina > m.stamina
          /\ ~JumpStarted(m, after)
          /\ RefusedThenJumps(after, input, delta, k - 1)

\* C25: with jump held on every tick, a tick starts a jump exactly when it
\* begins grounded with stamina > STAMINA_COST, so never while airborne;
\* a tick that begins grounded with less leaves the player grounded with
\* stamina raised by the recovery of the tick; and from there, at a fixed
\* frame time, stamina rises tick by tick until it exceeds STAMINA_COST,
\* and the tick after that starts the next jump.
C25_HeldJumpNeverDoubleJumps ==
  build = "gun" =>
    /\ \A input \in JumpInputs, delta \in AllDeltas :
         LET after == updateMovementV1(movementState, input, delta)
             allowed == /\ movementState.isGrounded
                        /\ movementState.stamina > CS2_CONSTANTS_V1.STAMINA_COST
         IN /\ JumpStarted(movementState, after) <=> allowed
            /\ ~movementState.isGrounded =>
                 after.velocity.y < CS2_CONSTANTS_V1.JUMP_VELOCITY
            /\ movementState.isGrounded /\ ~allowed =>
                 /\ after.isGrounded
                 /\ after.stamina = movementState.stamina + Regenerated(delta)
                 /\ after.stamina > movementState.stamina
    /\ /\ movementState.isGrounded
       /\ movementState.stamina <= CS2_CONSTANTS_V1.STAMINA_COST
       /\ " " \in keysPressed
       => RefusedThenJumps(movementState, GatherInput(keysPressed), frameTime,
                           RefusedTicks(movementState.stamina, frameTime))

\* jump has been held through two flights and the refusals after them: the
\* third jump started as soon as stamina had passed STAMINA_COST, and has
\* left less than one tick's recovery
C25_JumpedAgainAfterRefusal ==
  /\ build = "gun"
  /\ " " \in keysPressed
  /\ ~movementState.isGrounded
  /\ movementState.stamina > 0
  /\ movementState.stamina <= Regenerated(frameTime)

----------------------------------------------------------------------------
(* Properties of the crouch transition (revision "cs2")                    *)

\* frame times (milliseconds) with CROUCH_TRANSITION_SPEED * delta <= 1,
\* up to the last one, 0.125 s
CrouchDeltas == {1, 16, 33, 100, 125}

\* heights from CROUCH_HEIGHT to HEAD_HEIGHT: the ends, their neighbours
\* and heights in between
Heights ==
  {CS2_CONSTANTS.CROUCH_HEIGHT, CS2_CONSTANTS.CROUCH_HEIGHT + 1, 1234567,
   1299999, 1300000, 1450000, 1650001, CS2_CONSTANTS.HEAD_HEIGHT - 1,
   CS2_CONSTANTS.HEAD_HEIGHT}

\* h lies between a and b, ends included
Between(h, a, b) == (a <= h /\ h <= b) \/ (b <= h /\ h <= a)

\* a tick from smoothed height h keeps the height within
\* [CROUCH_HEIGHT, HEAD_HEIGHT] and between h and the target of the tick,
\* and moves it when the target is at least the tolerance 0.1 away
CrouchStepStaysBetween(m, h, input, delta) ==
  LET after == CrouchStep([m EXCEPT !.currentHeight = h], input, delta)
  IN /\ after.targetHeight = IF input.crouch THEN CS2_CONSTANTS.CROUCH_HEIGHT
                                              ELSE CS2_CONSTANTS.HEAD_HEIGHT
     /\ after.currentHeight >= CS2_CONSTANTS.CROUCH_HEIGHT
     /\ after.currentHeight <= CS2_CONSTANTS.HEAD_HEIGHT
     /\ Between(after.currentHeight, h, after.targetHeight)
     /\ Abs(after.targetHeight - h) >= CrouchTolerance => after.currentHeight # h

\* C26: for every tick with 0 < CROUCH_TRANSITION_SPEED * delta <= 1 and
\* either crouch input, currentHeight stays within
\* [CROUCH_HEIGHT, HEAD_HEIGHT] and ends between its old value and
\* targetHeight: it moves toward the target and does not pass it.  Checked
\* from every reachable height and from a grid of heights of the interval.
C26_HeightStaysBetween ==
  build = "cs2" =>
    /\ movementState.currentHeight >= CS2_CONSTANTS.CROUCH_HEIGHT
    /\ movementState.currentHeight <= CS2_CONSTANTS.HEAD_HEIGHT
    /\ \A input \in AllInputs, delta \in CrouchDeltas :
         /\ CrouchStepStaysBetween(movementState, movementState.currentHeight,
                                   input, delta)
         /\ updateMovement(movementState, input, delta).currentHeight
              = CrouchStep(movementState, input, delta).currentHeight
    /\ keyEvents = 0 /\ held = NoHandle =>
         \A h \in Heights, input \in AllInputs, delta \in CrouchDeltas :
           CrouchStepStaysBetween(movementState, h, input, delta)

\* crouch is held and the smoothed height is on its way down, strictly
\* between the two heights
C26_HalfwayDown ==
  /\ build = "cs2"
  /\ "shift" \in keysPressed
  /\ movementState.targetHeight = CS2_CONSTANTS.CROUCH_HEIGHT
  /\ movementState.currentHeight > CS2_CONSTANTS.CROUCH_HEIGHT + CrouchTolerance
  /\ movementState.currentHeight < CS2_CONSTANTS.HEAD_HEIGHT - CrouchTolerance

----------------------------------------------------------------------------
(* Properties of the isCrouching flag over a run (revision "cs2")          *)

\* the frame times of the runs with crouch held or released
HoldDeltas == CrouchDeltas \ {1}

\* the frame time (milliseconds) of a 250 Hz display
FastFrame == 4

\* ticks after which the flag has followed the key: 2 / (CROUCH_TRANSITION_SPEED
\* * delta) rounded down, plus one
CrouchTicks(delta) == 2000 \div (CS2_CONSTANTS.CROUCH_TRANSITION_SPEED * delta) + 1

\* k ticks with the same input: isCrouching is want after them, and a tick
\* that starts with isCrouching = want ends with it
RECURSIVE ReachesAndStays(_, _, _, _, _)
ReachesAndStays(m, input, delta, k, want) ==
  IF k = 0 THEN m.isCrouching = want
  ELSE LET after == updateMovement(m, input, delta)
       IN /\ m.isCrouching = want => after.isCrouching = want
          /\ ReachesAndStays(after, input, delta, k - 1, want)

\* C27: at a fixed frame time with 0 < CROUCH_TRANSITION_SPEED * delta <= 1,
\* holding crouch on every tick makes isCrouching true within
\* 2 / (CROUCH_TRANSITION_SPEED * delta) + 1 ticks, and once true it stays
\* true while crouch is held; releasing crouch makes it false within as
\* many ticks, and once false it stays false while crouch is released.
C27_FlagFollowsHeldKey ==
  build = "cs2" =>
    LET crouched == GatherInput(keysPressed \cup {"shift"})
        released == GatherInput(keysPressed \ {"shift"})
    IN /\ \A delta \in HoldDeltas :
            /\ ReachesAndStays(movementState, crouched, delta,
                               CrouchTicks(delta), TRUE)
            /\ ReachesAndStays(movementState, released, delta,
                               CrouchTicks(delta), FALSE)
       /\ keyEvents = 0 /\ held = NoHandle =>
            LET ticks == CrouchTicks(FastFrame)
                low == Run("cs2", movementState, crouched, FastFrame, ticks)
            IN /\ ReachesAndStays(movementState, crouched, FastFrame, ticks, TRUE)
               /\ low.isCrouching
               /\ ReachesAndStays(low, released, FastFrame, ticks, FALSE)

\* crouch has been held until the smoothed height is within a tenth of the
\* tolerance of the crouch height, and the flag is set
C27_SettledCrouch ==
  /\ build = "cs2"
  /\ "shift" \in keysPressed
  /\ movementState.isCrouching
  /\ movementState.currentHeight - CS2_CONSTANTS.CROUCH_HEIGHT
       < CrouchTolerance \div 10

----------------------------------------------------------------------------
(* Properties of a grounded tick without a jump                            *)

\* the inputs whose tick from m has no successful jump
NoJumpInputs(b, m) ==
  {i \in AllInputs : ~(i.jump /\ JumpSucceeds(b, m))}

----------------------------------------------------------------------------
(* Properties of the ammunition hook *)

\* C29 (as stated): after any sequence of trigger pulls, reloads, timer
\* expiries and cancelReload calls, renders in between or not, ammo.current
\* is within 0..max, and while isReloading is true or current is 0 shoot
\* returns false and leaves ammo as it is
C29_AmmoInRangeAndShootRefused ==
  /\ 0 <= ammo.current
  /\ ammo.current <= ammo.max
  /\ ammo.isReloading \/ ammo.current = 0 =>
       shoot(rendered, ammo) = [returned |-> FALSE, ammo |-> ammo]

\* the reload in progress: one timer, and the ref holds its id
OneReloadTimer ==
  /\ Cardinality(reloadTimers) <= 1
  /\ ammo.isReloading <=> reloadTimers # {}
  /\ \A t \in reloadTimers :
       /\ t.id = reloadTimeoutRef
       /\ t.due <= now + ReloadEmptyMs

\* a step that ends a reload is cancelReload (the only writer of null to the
\* ref) or fills the magazine
EndsByCancelOrRefill ==
  ammo.isReloading /\ ~ammo'.isReloading =>
    \/ reloadTimeoutRef' = 0
    \/ /\ ammo'.current = ammo'.max
       /\ ~ammo'.isEmpty
       /\ reloadTimers' = {}

\* C30: however manual reloads, the automatic reload after the last shot,
\* timer expiries and cancelReload calls interleave, at most one reload
\* timer is pending, isReloading is true exactly while one is pending, and
\* a reload ends: by cancelReload, or else with current = max, isReloading
\* false and isEmpty false
C30_OneReloadTimerThatCompletes ==
  /\ []OneReloadTimer
  /\ [][EndsByCancelOrRefill]_vars
  /\ (ammo.isReloading ~> ~ammo.isReloading)

\* the r key was pressed after the last shot, the automatic reload replaced
\* the timer of the manual one and the magazine was filled when it expired
C30_AutoReloadReplacedManual ==
  /\ ammoEvents = 1
  /\ shotsFired = MaxAmmo
  /\ reloadTimeoutRef = 2
  /\ now >= AutoReloadDelayMs + ReloadEmptyMs
  /\ ammo = NewAmmoState(MaxAmmo)
  /\ reloadTimers = {}

====
